---- MODULE Spec2Model ----
(***************************************************************************)
(* Workflow orchestration engine of DEO: graph passes of the               *)
(* TemplateOrchestrator, the Await suspension store with its inbound-event *)
(* handler and timeout sweeper, and the Scan watch store with its poller.  *)
(*                                                                         *)
(* Every coroutine is cut at its storage awaits: one action is the code    *)
(* between two awaits that touch a collection, so the interleavings of the *)
(* model are the interleavings the asyncio event loop can produce.         *)
(***************************************************************************)
EXTENDS Integers, Sequences, FiniteSets, TLC

(***************************************************************************)
(* Bounds of the model.                                                    *)
(***************************************************************************)
NumPasses == 2      \* passes started from the entry point (manual run / schedule fire)
NumHandlers == 3    \* inbound events handled by check_and_resume_awaits
MaxStarts == 4      \* passes started plus inbound events delivered, in one behaviour
MaxClock == 1       \* wall-clock instants 0..MaxClock
TimeoutTicks == 0   \* the await timeout ("0s"), in clock instants
MaxFaults == 1      \* storage calls of the sweeper that raise
MaxSweeps == 2      \* sweep ticks that select at least one run
MaxSendErrors == 1  \* chat.postMessage calls of a Response that are answered not-ok
NumScanPasses == 2  \* passes started from the entry point of a workflow with a Scan block
MaxPolls == 3       \* poll ticks that select at least one watch
MaxHistory == 2     \* messages posted to the watched channel
MaxScanClock == 2   \* clock instants of the watch scenario
ScanInterval == 1   \* the scan interval, in clock instants
MaxLoadFaults == 1  \* storage calls of the schedule restoration that raise
MaxRequests == 1    \* schedule/start and schedule/stop requests
MaxFires == 2       \* timer fires
MaxRules == 2       \* rules of a Condition block
MaxBlocks == 2      \* entries of the block list of the workflow G
MaxLayoutNodes == 3 \* nodes of the canvas layout a graph is built from
MaxListBlocks == 3  \* entries of the block list a graph is built from

\* conversations.history is asked for the newest 50 messages
HistoryLimit == 50

\* a sweep tick reads at most 100 overdue runs
SweepLimit == 100

None == "None"

Users == {"U1", "U2"}
Channels == {"D1", "D2", "CH"}
Templates == {"T1", "T2"}
ScanTemplates == {"T3", "T4"}
MultiTemplates == {"T5"}
ChainTemplates == {"T8"}
QuietTemplates == {"T6", "T7"}
EditedTemplates == {"A1", "A2", "A3", "A4", "A5", "A6"}
FileTemplates == {"F1", "F2"}
GraphTemplate == "G"

PassIds == {<<"pass", i>> : i \in 1..NumPasses}
HandlerIds == {<<"hand", i>> : i \in 1..NumHandlers}
Procs == PassIds \cup HandlerIds

ScanPassIds == {<<"scan", i>> : i \in 1..NumScanPasses}
PollId == <<"poll", 1>>
ScanProcs == ScanPassIds \cup {PollId}

GraphPassId == <<"graph", 1>>

(***************************************************************************)
(* Sequence helpers (Python list / set operations used by the code).       *)
(***************************************************************************)
Range(s) == {s[i] : i \in 1..Len(s)}

Contains(s, x) == \E i \in 1..Len(s) : s[i] = x

\* text containment: `needle in haystack` on strings given as character sequences
IsSubstring(needle, hay) ==
    \E k \in 0..(Len(hay) - Len(needle)) :
        \A j \in 1..Len(needle) : hay[k + j] = needle[j]

LowerChar(c) ==
    CASE c = "P" -> "p" [] c = "O" -> "o" [] c = "N" -> "n" [] c = "G" -> "g"
      [] c = "M" -> "m"
      [] OTHER -> c

\* str.lower()
Lower(s) == [i \in 1..Len(s) |-> LowerChar(s[i])]

RECURSIVE StripLeft(_)
StripLeft(s) == IF s # <<>> /\ Head(s) = " " THEN StripLeft(Tail(s)) ELSE s

RECURSIVE StripRight(_)
StripRight(s) ==
    IF s # <<>> /\ s[Len(s)] = " " THEN StripRight(SubSeq(s, 1, Len(s) - 1)) ELSE s

\* str.strip()
Strip(s) == StripRight(StripLeft(s))

(***************************************************************************)
(* The stored definition of the workflow G: the type of each canvas node   *)
(* and the canvas connections.                                             *)
(***************************************************************************)
VARIABLE defn

\* one evaluation of a Condition block: its config, the execution context, the result
VARIABLE cond

\* the active_schedules collection, the jobs of the in-process scheduler, the
\* restoration at startup and the schedule request under way
VARIABLES schedules, timers, loader, req

ScheduledTemplates == {"T1", "T2", "T4"}

Workspaces == {"W1"}

\* job_id = f"{template_id}_{workspace_id}"
JobId(t, w) == <<t, "_", w>>

JobIds == {JobId(t, w) : t \in ScheduledTemplates, w \in Workspaces}

\* the order of the entries in the collection
JobOrder == <<JobId("T1", "W1"), JobId("T2", "W1"), JobId("T4", "W1")>>

\* schedule specs: every 5 minutes; weekly at 09:00 without its day
ScheduleConfigs ==
    {[regularity |-> "interval", interval_minutes |-> "5", date |-> None, time |-> None,
      day_of_week |-> None, day_of_month |-> None],
     [regularity |-> "weekly", interval_minutes |-> None, date |-> None, time |-> "09:00",
      day_of_week |-> None, day_of_month |-> None]}

NoConfig ==
    [regularity |-> None, interval_minutes |-> None, date |-> None, time |-> None,
     day_of_week |-> None, day_of_month |-> None]

NoEntry ==
    [present |-> FALSE, job_id |-> <<>>, template_id |-> None, workspace_id |-> None,
     schedule_config |-> NoConfig, status |-> None]

\* the persisted entries a job may have at startup
EntryStates ==
    {NoEntry} \cup
    {[present |-> TRUE, job_id |-> JobId(t, w), template_id |-> t, workspace_id |-> w,
      schedule_config |-> c, status |-> st] :
        t \in ScheduledTemplates, w \in Workspaces, c \in ScheduleConfigs,
        st \in {"active", "stopped"}}

IdleRequest ==
    [pc |-> "idle", op |-> None, job |-> <<>>, schedule_config |-> NoConfig, n |-> 0]

\* context["last_condition_result"] before any Condition block ran
NoConditionResult ==
    [matched |-> FALSE, condition_index |-> -1, output_side |-> None, evaluated_value |-> <<>>]

NoCondition ==
    [config |-> [conditions |-> <<>>, default_output |-> None],
     context |-> [last_response |-> <<>>],
     result |-> NoConditionResult,
     pc |-> "idle"]

GraphNodes == {"n1", "n2", "n3"}

Targets == GraphNodes \cup {None}

\* canvas_layout.connections: the trigger output and the default output of each node
ConnectionsOf(entry, bottom) ==
    {[from |-> "trigger-node", side |-> "bottom", to |-> entry] : e \in {entry} \ {None}}
        \cup {[from |-> n, side |-> "bottom", to |-> bottom[n]] :
                   n \in {m \in GraphNodes : bottom[m] # None}}

\* BLOCK_EXECUTORS: the block kinds that have an executor
BlockExecutors == {"trigger", "message", "scan", "await", "response", "condition"}

\* a kind without an executor
UnknownKind == "bogus"

\* node kinds of G: a Message, a kind without an executor, or a canvas node without a type
GraphKinds == {"message", UnknownKind, None}

\* action_chain["blocks"]: in the new format a list of {type, config} objects, in the
\* legacy format a list of names, each with or without its config in the action chain
BlockLists(format) ==
    UNION {[1..n -> [kind : {"message", UnknownKind},
                     config : IF format = "new" THEN {TRUE} ELSE BOOLEAN]] : n \in 0..MaxBlocks}

\* the definitions G may have; execute() walks the graph when there is a connection
Definitions ==
    {d \in [type : [GraphNodes -> GraphKinds],
            connections : {ConnectionsOf(e, b) : e \in Targets, b \in [GraphNodes -> Targets]},
            format : {"new", "old"},
            blocks : BlockLists("new") \cup BlockLists("old")] :
        /\ d.connections # {}
        /\ d.blocks \in BlockLists(d.format)
        /\ d.blocks = <<>> => d.format = "new"}

NoDefinition ==
    [type |-> [n \in GraphNodes |-> None], connections |-> {}, format |-> "new", blocks |-> <<>>]

\* validate_template does not raise
ValidateTemplate(d) ==
    /\ d.blocks # <<>>
    /\ \A i \in 1..Len(d.blocks) :
          /\ d.format = "old" => d.blocks[i].config
          /\ d.blocks[i].kind \in BlockExecutors

(***************************************************************************)
(* The stored workflow definitions (action_chain with canvas_layout).      *)
(*   T1: trigger -> message(users=[U1,U2]) -> await("pong") -> response    *)
(*   T2: trigger -> message(channel=CH)    -> await("pong") -> response    *)
(*   T3: trigger -> scan(OPS, "!GO")       -> message(channel=CH) -> response *)
(*   T4: trigger -> message(channel=CH)    -> scan(OPS, "!GO")    -> response *)
(*   T5: two Await nodes; the canvas lists the nodes n1..n5 in the order   *)
(*       they were created, the connections run                            *)
(*       trigger -> n1 message(users) -> n4 await -> n5 response           *)
(*               -> n2 await -> n3 response                                *)
(*   T6, T7: as T2, the Await without a failure message                    *)
(*   T8: trigger -> n1 message(channel=CH) -> n2 await -> n3 message       *)
(*               -> n4 await                                               *)
(*   F1, F2: as T1 and T2, the Message with a file attached                *)
(*   A1..A6: the workflow A as it is stored at different times, as T2 but  *)
(*       for the timeout and expected_response of its Await                *)
(***************************************************************************)
NodeIds == {"n1", "n2", "n3", "n4", "n5"}

\* canvas_layout.nodes, in the order _build_graph fills node_to_block
NodeOrder == <<"n1", "n2", "n3", "n4", "n5">>

NodeType(t, n) ==
    CASE t = GraphTemplate -> (IF n \in GraphNodes THEN defn.type[n] ELSE None)
      [] t = "T3" /\ n = "n1" -> "scan"
      [] t = "T3" /\ n = "n2" -> "message"
      [] t = "T4" /\ n = "n1" -> "message"
      [] t = "T4" /\ n = "n2" -> "scan"
      [] t \in Templates \cup QuietTemplates \cup EditedTemplates \cup FileTemplates
            /\ n = "n1" -> "message"
      [] t \in Templates \cup QuietTemplates \cup EditedTemplates \cup FileTemplates
            /\ n = "n2" -> "await"
      [] t \in Templates \cup ScanTemplates \cup QuietTemplates \cup EditedTemplates
                 \cup FileTemplates
            /\ n = "n3" -> "response"
      [] t = "T8" /\ n \in {"n1", "n3"} -> "message"
      [] t = "T8" /\ n \in {"n2", "n4"} -> "await"
      [] t = "T5" /\ n = "n1" -> "message"
      [] t = "T5" /\ n \in {"n2", "n4"} -> "await"
      [] t = "T5" /\ n \in {"n3", "n5"} -> "response"
      [] OTHER -> None

CanvasConnections(t) ==
    IF t = GraphTemplate THEN defn.connections
    ELSE IF t = "T5"
    THEN { [from |-> "trigger-node", side |-> "bottom", to |-> "n1"],
           [from |-> "n1", side |-> "bottom", to |-> "n4"],
           [from |-> "n4", side |-> "bottom", to |-> "n5"],
           [from |-> "n5", side |-> "bottom", to |-> "n2"],
           [from |-> "n2", side |-> "bottom", to |-> "n3"] }
    ELSE IF t = "T8"
    THEN { [from |-> "trigger-node", side |-> "bottom", to |-> "n1"],
           [from |-> "n1", side |-> "bottom", to |-> "n2"],
           [from |-> "n2", side |-> "bottom", to |-> "n3"],
           [from |-> "n3", side |-> "bottom", to |-> "n4"] }
    ELSE { [from |-> "trigger-node", side |-> "bottom", to |-> "n1"],
           [from |-> "n1", side |-> "bottom", to |-> "n2"],
           [from |-> "n2", side |-> "bottom", to |-> "n3"] }

\* message block config: mode and targets
MessageMode(t) == IF t \in {"T1", "T5", "F1"} THEN "users" ELSE "channel"
MessageHasFile(t) == t \in FileTemplates
MessageUsers(t) == <<"U1", "U2">>
MessageChannel(t) == "CH"

\* conversations.open: the direct channel of a user
DmChannel(u) == IF u = "U1" THEN "D1" ELSE "D2"

\* conversations.members of the channel CH
ChannelMembers == <<"U1", "U2">>

\* the template_id of the stored workflow
TemplateId(t) == IF t \in EditedTemplates THEN "A" ELSE t

\* await block config: timeout and expected_response as they are stored
AwaitTimeout(t) ==
    CASE t = "A2" -> <<"5", "M">>
      [] t = "A3" -> <<"5", "x">>
      [] t = "A4" -> <<"m">>
      [] t \in EditedTemplates -> <<"5", "m">>
      [] OTHER -> <<"1", "h">>

AwaitExpectedResponse(t) ==
    CASE t = "A5" -> <<>>
      [] t = "A6" -> <<" ", ",", " ">>
      [] OTHER -> <<"p", "o", "n", "g">>

DecimalDigits == {"0", "1", "2", "3", "4", "5", "6", "7", "8", "9"}

\* re.match(r'^(\d+)([smhd])$', s) finds a match
MatchesDuration(s) ==
    /\ Len(s) >= 2
    /\ \A i \in 1..(Len(s) - 1) : s[i] \in DecimalDigits
    /\ s[Len(s)] \in {"s", "m", "h", "d"}

\* parse_timeout does not raise
ParseTimeout(s) == MatchesDuration(Lower(s))

\* str.split(",")
RECURSIVE SplitCommas(_)
SplitCommas(s) ==
    IF "," \notin Range(s) THEN <<s>>
    ELSE LET i == CHOOSE k \in 1..Len(s) : s[k] = "," /\ \A j \in 1..(k - 1) : s[j] # ","
         IN  <<SubSeq(s, 1, i - 1)>> \o SplitCommas(SubSeq(s, i + 1, Len(s)))

\* expected_responses of execute_await
ExpectedResponses(raw) ==
    IF raw = <<>> THEN <<>>
    ELSE LET kept == SelectSeq(SplitCommas(raw), LAMBDA r : Strip(r) # <<>>)
         IN  [i \in 1..Len(kept) |-> Lower(Strip(kept[i]))]

AwaitExpected(t) == ExpectedResponses(AwaitExpectedResponse(t))

\* execute_await that takes whatever timeout and expected_response it is given
AwaitDataUnchecked(t) == TRUE

\* execute_await gets past parse_timeout and the check of expected_responses
AwaitDataValid(t) == ParseTimeout(AwaitTimeout(t)) /\ AwaitExpected(t) # <<>>
AwaitHasFailureMessage(t) == t \notin QuietTemplates

\* scan block config: the command looked for in the channel OPS
ScanCommand(t) == <<"!", "G", "O">>

\* texts posted to the channel OPS: one that contains the command, one that does not
ScanTexts == { <<"!", "g", "o", "!">>, <<"g", "o">> }

\* inbound texts: one that contains the expected reply (in another case), one that does not
Texts == { <<"P", "o", "n", "g", "!">>, <<"n", "o">> }

\* (participant, channel) pairs an inbound event can carry
EventPlaces == { <<"U1", "D1">>, <<"U2", "D2">>, <<"U1", "CH">>, <<"U2", "CH">> }


(***************************************************************************)
(* State.                                                                  *)
(***************************************************************************)
VARIABLES
    now,          \* datetime.utcnow(), as a clock instant
    nextId,       \* the next ObjectId the store hands out
    pending,      \* collection pending_executions, in insertion order
    completed,    \* collection completed_executions
    failed,       \* collection failed_executions
    orc,          \* one TemplateOrchestrator (and its running pass) per process
    hand,         \* the check_and_resume_awaits coroutines
    sweep,        \* the timeout_checker_loop coroutine
    slack,        \* messages Slack accepted, counted per (kind, run, channel)
    faults,       \* storage calls of the sweeper that raised so far
    sweeps,       \* sweep ticks that selected a run so far
    sendErrors,   \* Response posts answered not-ok so far
    scans,        \* collection pending_scans, in insertion order
    history,      \* the messages of the channel OPS, oldest first
    poll,         \* the scan_checker_loop coroutine
    scanLog,      \* collection scan_executions_log
    fired,        \* history: the timestamps of the messages that caused a trigger
    polls         \* poll ticks that selected a watch so far

scanVars == <<scans, history, poll, scanLog, fired, polls>>

graphVars == <<defn, cond>>

schedVars == <<schedules, timers, loader, req>>

awaitVars == <<pending, completed, failed, hand, sweep, faults, sweeps, sendErrors>>

vars == <<now, nextId, pending, completed, failed, orc, hand, sweep, slack,
          faults, sweeps, sendErrors, scans, history, poll, scanLog, fired, polls,
          defn, cond, schedules, timers, loader, req>>

RunIds == 1..(NumPasses + NumHandlers)

SlackKeys ==
    ({"message", "response"} \X {0} \X Channels) \cup ({"failure"} \X RunIds \X Channels)

\* slack with one more accepted message of `kind` on every channel of the sequence chans
Posted(sl, kind, run, chans) ==
    [k \in SlackKeys |->
        IF k[1] = kind /\ k[2] = run /\ Contains(chans, k[3])
        THEN sl[k] + Cardinality({i \in 1..Len(chans) : chans[i] = k[3]})
        ELSE sl[k]]

(***************************************************************************)
(* TemplateOrchestrator: construction and graph helpers.                   *)
(***************************************************************************)
IdleOrc ==
    [st |-> "idle", tpl |-> None, start |-> None, cur |-> None, visited |-> {}, iters |-> 0,
     message_mode |-> None, last_channel |-> None, user_channels |-> <<>>,
     monitored_users |-> <<>>, channel_members |-> <<>>, trace |-> <<>>, cnt |-> 0]

\* connections_from.get((node, side))
GetNextNode(t, n, side) ==
    LET hits == {c \in CanvasConnections(t) : c.from = n /\ c.side = side}
    IN  IF hits = {} THEN None ELSE (CHOOSE c \in hits : TRUE).to

GetFirstNodeAfterTrigger(t) == GetNextNode(t, "trigger-node", "bottom")

\* __init__ followed by _execute_graph up to the while loop, entered at `start`
NewOrchestrator(t, start) ==
    [IdleOrc EXCEPT !.st = IF start = None THEN "finished" ELSE "run",
                    !.tpl = t, !.start = start, !.cur = start]

\* the loop without its visited set
AdvanceUnguarded(o, entry, next) ==
    [o EXCEPT !.trace = Append(o.trace, entry),
              !.iters = o.iters + 1,
              !.cur = next,
              !.st = IF next = None THEN "finished" ELSE "run"]

\* one completed iteration of the while loop of _execute_graph: the node is marked
\* visited, the result is appended to the trace and the pass moves to `next`; the
\* loop ends when there is no next node or it was visited before
Advance(o, entry, next) ==
    LET seen == o.visited \cup {o.cur}
    IN  [o EXCEPT !.visited = seen,
                  !.iters = o.iters + 1,
                  !.trace = Append(o.trace, entry),
                  !.cur = next,
                  !.st = IF next = None \/ next \in seen THEN "finished" ELSE "run"]

\* the skip of a node without a type, the node left out of the visited set
SkipUnguarded(o, next) ==
    [o EXCEPT !.iters = o.iters + 1,
              !.cur = next,
              !.st = IF next = None THEN "finished" ELSE "run"]

\* an iteration at a node without a type: marked visited, nothing dispatched
Skip(o, next) ==
    LET seen == o.visited \cup {o.cur}
    IN  [o EXCEPT !.visited = seen,
                  !.iters = o.iters + 1,
                  !.cur = next,
                  !.st = IF next = None \/ next \in seen THEN "finished" ELSE "run"]

\* the while loop is at a node of the given kind
AtBlock(x, kind) ==
    /\ orc[x].st = "run"
    /\ orc[x].cur # None
    /\ orc[x].cur \notin orc[x].visited
    /\ NodeType(orc[x].tpl, orc[x].cur) = kind

(***************************************************************************)
(* A pass from the entry point: TemplateOrchestrator(...).execute().       *)
(***************************************************************************)
\* passes and handlers begun so far
Started ==
    Cardinality({p \in PassIds : orc[p].st # "idle"})
        + Cardinality({h \in HandlerIds : hand[h].pc # "idle"})

\* coroutines are interchangeable: a new one takes the lowest free slot
LowestFree(x, free) == x \in free /\ \A y \in free : x[2] <= y[2]

StartPass(p, t) ==
    /\ LowestFree(p, {q \in PassIds : orc[q].st = "idle"})
    /\ Started < MaxStarts
    /\ orc' = [orc EXCEPT ![p] = NewOrchestrator(t, GetFirstNodeAfterTrigger(t))]
    /\ UNCHANGED scanVars
    /\ UNCHANGED <<now, nextId, pending, completed, failed, hand, sweep, slack,
                   faults, sweeps, sendErrors>>
    /\ UNCHANGED graphVars
    /\ UNCHANGED schedVars

(***************************************************************************)
(* Message block (_execute_block, "message"): the message is delivered and *)
(* the orchestrator records the mode, the channel(s) and the participants. *)
(***************************************************************************)
AfterMessage(o) ==
    LET t == o.tpl
        users == MessageUsers(t)
        dms == [i \in 1..Len(users) |-> DmChannel(users[i])]
    IN  IF MessageMode(t) = "channel"
        THEN [o EXCEPT !.message_mode = "channel",
                       !.last_channel = MessageChannel(t),
                       !.channel_members = ChannelMembers]
        ELSE [o EXCEPT !.message_mode = "users",
                       !.user_channels = dms,
                       !.monitored_users = users,
                       !.last_channel = IF Len(dms) > 0 THEN dms[1] ELSE o.last_channel]

ExecMessage(x) ==
    /\ AtBlock(x, "message")
    /\ LET o == AfterMessage(orc[x])
           chans == IF o.message_mode = "channel" THEN <<o.last_channel>>
                    ELSE o.user_channels
       IN  /\ orc' = [orc EXCEPT ![x] =
                        Advance(o, [node |-> orc[x].cur, block |-> "message", sent |-> chans],
                                GetNextNode(o.tpl, orc[x].cur, "bottom"))]
           /\ slack' = Posted(slack, "message", 0, chans)
    /\ UNCHANGED scanVars
    /\ UNCHANGED <<now, nextId, pending, completed, failed, hand, sweep,
                   faults, sweeps, sendErrors>>
    /\ UNCHANGED graphVars
    /\ UNCHANGED schedVars

(***************************************************************************)
(* Await block: _execute_block picks the channels and participants, then   *)
(* execute_await does count_documents, delete_many and insert_one, each an *)
(* await of its own, and the pass returns (result None).                   *)
(***************************************************************************)
IsActiveFor(d, t) == d.template_id = TemplateId(t) /\ d.status = "awaiting_response"

\* the arguments _execute_block passes to execute_await
AwaitChannels(o) ==
    IF o.message_mode = "channel" THEN <<o.last_channel>> ELSE o.user_channels

AwaitUsers(o) ==
    IF o.message_mode = "channel" THEN o.channel_members ELSE o.monitored_users

AwaitMode(o) == IF o.message_mode = "channel" THEN "channel" ELSE "users"

\* the checks of _execute_block that raise ValueError before execute_await is called
AwaitPrecondition(o) ==
    IF o.message_mode = "channel" THEN Len(o.channel_members) > 0
    ELSE Len(o.user_channels) > 0

\* existing_count > 0
MustDeletePrior(cnt) == cnt > 0

AwaitCount(x) ==
    /\ AtBlock(x, "await")
    /\ LET o == orc[x]
           cnt == Cardinality({i \in 1..Len(pending) : IsActiveFor(pending[i], o.tpl)})
       IN  orc' = [orc EXCEPT ![x] =
                IF ~AwaitPrecondition(o) \/ ~AwaitDataValid(o.tpl)
                THEN [o EXCEPT !.st = "raised", !.visited = o.visited \cup {o.cur}]
                ELSE [o EXCEPT !.visited = o.visited \cup {o.cur},
                               !.cnt = cnt,
                               !.st = IF MustDeletePrior(cnt) THEN "await_delete"
                                      ELSE "await_insert"]]
    /\ UNCHANGED scanVars
    /\ UNCHANGED <<now, nextId, pending, completed, failed, hand, sweep, slack,
                   faults, sweeps, sendErrors>>
    /\ UNCHANGED graphVars
    /\ UNCHANGED schedVars

AwaitDelete(x) ==
    /\ orc[x].st = "await_delete"
    /\ pending' = SelectSeq(pending, LAMBDA d : ~IsActiveFor(d, orc[x].tpl))
    /\ orc' = [orc EXCEPT ![x].st = "await_insert"]
    /\ UNCHANGED scanVars
    /\ UNCHANGED <<now, nextId, completed, failed, hand, sweep, slack,
                   faults, sweeps, sendErrors>>
    /\ UNCHANGED graphVars
    /\ UNCHANGED schedVars

\* pending_doc of execute_await
PendingDoc(o, id, at) ==
    [id |-> id,
     template_id |-> TemplateId(o.tpl),
     status |-> "awaiting_response",
     expected_responses |-> AwaitExpected(o.tpl),
     mode |-> AwaitMode(o),
     monitored_channels |-> AwaitChannels(o),
     monitored_users |-> AwaitUsers(o),
     users_responded |-> <<>>,
     responses_received |-> <<>>,
     timeout_at |-> at + TimeoutTicks,
     failure_message |-> AwaitHasFailureMessage(o.tpl)]

\* the Await block handing back a result: the loop records it and goes on
AwaitInsertAndGoOn(x) ==
    /\ orc[x].st = "await_insert"
    /\ nextId \in RunIds
    /\ pending' = Append(pending, PendingDoc(orc[x], nextId, now))
    /\ nextId' = nextId + 1
    /\ orc' = [orc EXCEPT ![x] =
            Advance([orc[x] EXCEPT !.st = "run"],
                    [node |-> orc[x].cur, block |-> "await", sent |-> <<>>],
                    GetNextNode(orc[x].tpl, orc[x].cur, "bottom"))]
    /\ UNCHANGED scanVars
    /\ UNCHANGED <<now, completed, failed, hand, sweep, slack,
                   faults, sweeps, sendErrors>>
    /\ UNCHANGED graphVars
    /\ UNCHANGED schedVars

AwaitInsert(x) ==
    /\ orc[x].st = "await_insert"
    /\ nextId \in RunIds
    /\ pending' = Append(pending, PendingDoc(orc[x], nextId, now))
    /\ nextId' = nextId + 1
    /\ orc' = [orc EXCEPT ![x].st = "suspended"]
    /\ UNCHANGED scanVars
    /\ UNCHANGED <<now, completed, failed, hand, sweep, slack,
                   faults, sweeps, sendErrors>>
    /\ UNCHANGED graphVars
    /\ UNCHANGED schedVars
\* the three requests of _upload_file; each raises when it is not answered ok
UploadSteps == {"getUploadURLExternal", "upload", "completeUploadExternal"}

\* _send_to_users: the direct channels whose upload did not fail
Delivered(dms, bad) == SelectSeq(dms, LAMBDA c : \A i \in bad : dms[i] # c)

\* a Message block with a file.  In users mode the upload to each direct channel sits in
\* the try of the loop over the users and a failed one is recorded as a failed delivery;
\* in channel mode _send_to_channel calls _upload_file outside any try and its exception
\* leaves execute_message and the pass.  A failed upload posts nothing, whatever its step.
ExecMessageFile(x) ==
    /\ AtBlock(x, "message")
    /\ MessageHasFile(orc[x].tpl)
    /\ LET o == AfterMessage(orc[x])
           next == GetNextNode(o.tpl, orc[x].cur, "bottom")
       IN  IF o.message_mode = "channel"
           THEN \/ /\ orc' = [orc EXCEPT ![x] =
                          Advance(o, [node |-> orc[x].cur, block |-> "message",
                                      sent |-> <<o.last_channel>>], next)]
                   /\ slack' = Posted(slack, "message", 0, <<o.last_channel>>)
                   /\ UNCHANGED sendErrors
                \/ /\ sendErrors < MaxSendErrors
                   /\ \E step \in UploadSteps :
                         orc' = [orc EXCEPT ![x] =
                                    [orc[x] EXCEPT !.st = "raised",
                                                   !.visited = orc[x].visited \cup {orc[x].cur}]]
                   /\ sendErrors' = sendErrors + 1
                   /\ UNCHANGED slack
           ELSE \E bad \in SUBSET (1..Len(o.user_channels)), step \in UploadSteps :
                   /\ sendErrors + Cardinality(bad) <= MaxSendErrors
                   /\ LET ok == Delivered(o.user_channels, bad)
                          users == SelectSeq(o.monitored_users,
                                             LAMBDA u : Contains(ok, DmChannel(u)))
                          after == [o EXCEPT !.user_channels = ok,
                                             !.monitored_users = users,
                                             !.last_channel = IF Len(ok) > 0 THEN ok[1]
                                                              ELSE orc[x].last_channel]
                      IN  /\ orc' = [orc EXCEPT ![x] =
                                 Advance(after, [node |-> orc[x].cur, block |-> "message",
                                                 sent |-> ok], next)]
                          /\ slack' = Posted(slack, "message", 0, ok)
                   /\ sendErrors' = sendErrors + Cardinality(bad)
    /\ UNCHANGED scanVars
    /\ UNCHANGED <<now, nextId, pending, completed, failed, hand, sweep, faults, sweeps>>
    /\ UNCHANGED graphVars
    /\ UNCHANGED schedVars

(***************************************************************************)
(* Response block (_execute_block, "response").  In users mode with more   *)
(* than one direct channel the text goes to every channel and a failed     *)
(* post is recorded per channel; otherwise one post to last_channel, whose *)
(* failure raises out of the pass.                                         *)
(***************************************************************************)
ResponseFansOut(o) == o.message_mode = "users" /\ Len(o.user_channels) > 1

ExecResponse(x) ==
    /\ AtBlock(x, "response")
    /\ LET o == orc[x]
           next == GetNextNode(o.tpl, o.cur, "bottom")
       IN
       IF o.last_channel = None
       THEN /\ orc' = [orc EXCEPT ![x] = [o EXCEPT !.st = "raised",
                                                 !.visited = o.visited \cup {o.cur}]]
            /\ UNCHANGED <<slack, sendErrors>>
       ELSE IF ResponseFansOut(o)
       THEN \E bad \in SUBSET (1..Len(o.user_channels)) :
              /\ sendErrors + Cardinality(bad) <= MaxSendErrors
              /\ LET ok == SelectSeq(o.user_channels,
                                     LAMBDA c : \A i \in bad : o.user_channels[i] # c)
                 IN  /\ orc' = [orc EXCEPT ![x] =
                            Advance(o, [node |-> o.cur, block |-> "response", sent |-> ok],
                                    next)]
                     /\ slack' = Posted(slack, "response", 0, ok)
              /\ sendErrors' = sendErrors + Cardinality(bad)
       ELSE \/ /\ orc' = [orc EXCEPT ![x] =
                      Advance(o, [node |-> o.cur, block |-> "response",
                                  sent |-> <<o.last_channel>>], next)]
               /\ slack' = Posted(slack, "response", 0, <<o.last_channel>>)
               /\ UNCHANGED sendErrors
            \/ /\ sendErrors < MaxSendErrors
               /\ orc' = [orc EXCEPT ![x] = [o EXCEPT !.st = "raised",
                                                    !.visited = o.visited \cup {o.cur}]]
               /\ sendErrors' = sendErrors + 1
               /\ UNCHANGED slack
    /\ UNCHANGED scanVars
    /\ UNCHANGED <<now, nextId, pending, completed, failed, hand, sweep, faults, sweeps>>
    /\ UNCHANGED graphVars
    /\ UNCHANGED schedVars


(***************************************************************************)
(* check_and_resume_awaits(user_id, channel_id, message_text).             *)
(***************************************************************************)
IdleHandler ==
    [pc |-> "idle", user |-> None, channel |-> None, text |-> <<>>,
     found |-> <<>>, matched |-> {}, i |-> 0, users_responded |-> <<>>, latest |-> <<>>,
     why |-> None]

\* check_response_match with match_type "contains" and case_sensitive False
CheckResponseMatch(text, expected_responses) ==
    \E k \in 1..Len(expected_responses) :
        /\ Len(expected_responses[k]) > 0
        /\ IsSubstring(Lower(expected_responses[k]), Lower(text))

\* the filter with a condition on timeout_at added
MonitorsInTime(d, u, c) ==
    /\ d.status = "awaiting_response"
    /\ Contains(d.monitored_channels, c)
    /\ Contains(d.monitored_users, u)
    /\ d.timeout_at >= now

\* the filter of pending_executions.find
Monitors(d, u, c) ==
    /\ d.status = "awaiting_response"
    /\ Contains(d.monitored_channels, c)
    /\ Contains(d.monitored_users, u)

\* `user_id in users_responded`
AlreadyResponded(responded, u) == Contains(responded, u)

\* users_responded after `if user_id not in users_responded: append`
WithResponder(responded, u) ==
    IF AlreadyResponded(responded, u) THEN responded ELSE Append(responded, u)

\* users mode as the docstring of execute_await words it: the first reply resumes
ShouldResumeOnFirstReply(mode, responded, monitored) ==
    \/ mode = "users" /\ Len(responded) > 0
    \/ mode = "channel" /\ Range(monitored) \subseteq Range(responded)

\* should_resume: set(users_responded) >= set(monitored_users), in both modes
ShouldResume(mode, responded, monitored) ==
    /\ mode \in {"users", "channel"}
    /\ Range(monitored) \subseteq Range(responded)

\* the loop without the check of the text: any reply of a monitored participant counts
PassesOverAnyText(e, u, text) ==
    /\ AlreadyResponded(e.users_responded, u)
    /\ ~ShouldResume(e.mode, e.users_responded, e.monitored_users)

\* an iteration of the for loop that does nothing and awaits nothing: the text does
\* not match, or the participant is already recorded and the run is not complete
PassesOver(e, u, text) ==
    \/ ~CheckResponseMatch(text, e.expected_responses)
    \/ /\ AlreadyResponded(e.users_responded, u)
       /\ ~ShouldResume(e.mode, e.users_responded, e.monitored_users)

\* the index of the first execution at or after i the loop stops at (Len + 1: none)
RECURSIVE NextStop(_, _, _, _)
NextStop(found, i, u, text) ==
    IF i > Len(found) THEN i
    ELSE IF PassesOver(found[i], u, text) THEN NextStop(found, i + 1, u, text)
    ELSE i

\* the coroutine has returned (or raised): its locals are gone; the event it
\* handled, the ids of the runs whose loop iteration matched the text and the run it
\* resumed are kept
Returned(hr, pc, why) ==
    [IdleHandler EXCEPT !.pc = pc, !.why = why, !.user = hr.user, !.channel = hr.channel,
                        !.text = hr.text, !.matched = hr.matched, !.latest = hr.latest]

\* the ids of the executions at indexes from..to whose iteration matched the text
MatchedIn(found, from, to, text) ==
    {found[k].id : k \in {n \in from..to : /\ n <= Len(found)
                                            /\ CheckResponseMatch(text, found[n].expected_responses)}}

\* the handler after the loop ran on from index `from` and stopped at index j
AtIndex(hr, from, j) ==
    LET reached == [hr EXCEPT !.matched = @ \cup MatchedIn(hr.found, from, j, hr.text)]
    IN  IF j > Len(hr.found) THEN Returned(reached, "done", None)
        ELSE [reached EXCEPT !.pc = "loop", !.i = j]

Deliver(h, u, c, text) ==
    /\ LowestFree(h, {g \in HandlerIds : hand[g].pc = "idle"})
    /\ Started < MaxStarts
    /\ LET found == SelectSeq(pending, LAMBDA d : Monitors(d, u, c))
           hr == [hand[h] EXCEPT !.user = u, !.channel = c, !.text = text,
                                 !.found = found]
       IN  hand' = [hand EXCEPT ![h] = AtIndex(hr, 1, NextStop(found, 1, u, text))]
    /\ UNCHANGED scanVars
    /\ UNCHANGED <<now, nextId, pending, completed, failed, orc, sweep, slack,
                   faults, sweeps, sendErrors>>
    /\ UNCHANGED graphVars
    /\ UNCHANGED schedVars

\* update_one({"_id": id}, {"$set": {"users_responded": ...}, "$push": {...}})
UpdateOne(store, id, responded, entry) ==
    [k \in 1..Len(store) |->
        IF store[k].id = id
        THEN [store[k] EXCEPT !.users_responded = responded,
                              !.responses_received = Append(@, entry)]
        ELSE store[k]]

HandleMatch(h) ==
    /\ hand[h].pc = "loop"
    /\ LET hr == hand[h]
           e == hr.found[hr.i]
           responded == WithResponder(e.users_responded, hr.user)
           entry == [user_id |-> hr.user, channel_id |-> hr.channel]
       IN  /\ pending' = IF AlreadyResponded(e.users_responded, hr.user) THEN pending
                         ELSE UpdateOne(pending, e.id, responded, entry)
           /\ hand' = [hand EXCEPT ![h] =
                  IF ShouldResume(e.mode, responded, e.monitored_users)
                  THEN [hr EXCEPT !.pc = "find_one", !.users_responded = responded]
                  ELSE AtIndex([hr EXCEPT !.users_responded = responded], hr.i + 1,
                               NextStop(hr.found, hr.i + 1, hr.user, hr.text))]
    /\ UNCHANGED scanVars
    /\ UNCHANGED <<now, nextId, completed, failed, orc, sweep, slack,
                   faults, sweeps, sendErrors>>
    /\ UNCHANGED graphVars
    /\ UNCHANGED schedVars

\* the first node of type await in node_to_block (canvas node order)
AwaitNodeOf(t) ==
    LET hits == {k \in 1..Len(NodeOrder) : NodeType(t, NodeOrder[k]) = "await"}
    IN  IF hits = {} THEN None
        ELSE NodeOrder[CHOOSE k \in hits : \A j \in hits : k <= j]

\* the orchestrator the handler builds from latest_execution, entered after the await
ResumedOrchestrator(doc) ==
    LET t == doc.template_id
        a == AwaitNodeOf(t)
        start == IF a = None THEN None ELSE GetNextNode(t, a, "bottom")
        o == NewOrchestrator(t, start)
    IN  IF doc.mode = "channel"
        THEN [o EXCEPT !.last_channel = doc.monitored_channels[1],
                       !.message_mode = "channel"]
        ELSE [o EXCEPT !.last_channel = doc.monitored_channels[1],
                       !.message_mode = "users",
                       !.user_channels = doc.monitored_channels]

\* find_one({"_id": id}): the document, as a sequence of length one, or none
FindOne(store, id) == SelectSeq(store, LAMBDA d : d.id = id)

HandlerFindOne(h) ==
    /\ hand[h].pc = "find_one"
    /\ LET hr == hand[h]
           got == FindOne(pending, hr.found[hr.i].id)
       IN  IF Len(got) = 0
           THEN \* latest_execution is None: the item assignment raises TypeError
                /\ hand' = [hand EXCEPT ![h] = Returned(hr, "raised", "none")]
                /\ UNCHANGED orc
           ELSE /\ hand' = [hand EXCEPT ![h] =
                       [hr EXCEPT !.pc = "resuming",
                                  !.latest = <<[got[1] EXCEPT !.status = "completed"]>>]]
                /\ orc' = [orc EXCEPT ![h] = ResumedOrchestrator(got[1])]
    /\ UNCHANGED scanVars
    /\ UNCHANGED <<now, nextId, pending, completed, failed, sweep, slack,
                   faults, sweeps, sendErrors>>
    /\ UNCHANGED graphVars
    /\ UNCHANGED schedVars

\* the resumed pass has returned or raised
PassOver(o) == o.st \in {"finished", "suspended", "raised"}

\* the status the handler files the run under: the except clause tags it failed
FiledStatus(st) == IF st = "raised" THEN "failed" ELSE "completed"

\* the document inserted into completed_executions
CompletedDoc(latest, o) ==
    [doc |-> [latest EXCEPT !.status = FiledStatus(o.st)],
     execution_results |-> IF o.st = "raised" THEN <<>> ELSE o.trace,
     error |-> o.st = "raised"]

HasId(store, id) == \E k \in 1..Len(store) : store[k].doc.id = id

HandlerInsert(h) ==
    /\ hand[h].pc = "resuming"
    /\ PassOver(orc[h])
    /\ IF HasId(completed, hand[h].latest[1].id)
       THEN \* DuplicateKeyError on _id
            /\ hand' = [hand EXCEPT ![h] = Returned(hand[h], "raised", "duplicate")]
            /\ UNCHANGED completed
       ELSE /\ completed' = Append(completed, CompletedDoc(hand[h].latest[1], orc[h]))
            /\ hand' = [hand EXCEPT ![h].pc = "delete"]
    /\ UNCHANGED scanVars
    /\ UNCHANGED <<now, nextId, pending, failed, orc, sweep, slack,
                   faults, sweeps, sendErrors>>
    /\ UNCHANGED graphVars
    /\ UNCHANGED schedVars

\* a delete that takes the runs created after the run along with it
DeleteFrom(store, id) == SelectSeq(store, LAMBDA d : d.id < id)

DeleteOne(store, id) == SelectSeq(store, LAMBDA d : d.id # id)

\* the for loop without its break: after the move the loop goes on with the next match
HandlerDeleteAndGoOn(h) ==
    /\ hand[h].pc = "delete"
    /\ pending' = DeleteOne(pending, hand[h].latest[1].id)
    /\ hand' = [hand EXCEPT ![h] =
           AtIndex(hand[h], hand[h].i + 1,
                   NextStop(hand[h].found, hand[h].i + 1, hand[h].user, hand[h].text))]
    /\ UNCHANGED scanVars
    /\ UNCHANGED <<now, nextId, completed, failed, orc, sweep, slack,
                   faults, sweeps, sendErrors>>
    /\ UNCHANGED graphVars
    /\ UNCHANGED schedVars

HandlerDelete(h) ==
    /\ hand[h].pc = "delete"
    /\ pending' = DeleteOne(pending, hand[h].latest[1].id)
    /\ hand' = [hand EXCEPT ![h] = Returned(hand[h], "done", None)]
    /\ UNCHANGED scanVars
    /\ UNCHANGED <<now, nextId, completed, failed, orc, sweep, slack,
                   faults, sweeps, sendErrors>>
    /\ UNCHANGED graphVars
    /\ UNCHANGED schedVars


(***************************************************************************)
(* timeout_checker_loop / check_timeouts.  A storage call that raises ends *)
(* the tick: check_timeouts has no handler of its own, the loop catches    *)
(* the exception and sleeps.                                               *)
(***************************************************************************)
\* caught: the last call of check_timeouts ended in the except branch of the loop
IdleSweep == [pc |-> "sleep", timed_out |-> <<>>, i |-> 0, caught |-> FALSE]

IsTimedOut(d, t) == d.status = "awaiting_response" /\ d.timeout_at < t

SweepFind ==
    /\ sweep.pc = "sleep"
    /\ sweeps < MaxSweeps
    /\ LET timed_out == SelectSeq(pending, LAMBDA d : IsTimedOut(d, now))
       IN  /\ Len(timed_out) > 0
           /\ sweep' = [pc |-> "mark", timed_out |-> timed_out, i |-> 1, caught |-> FALSE]
    /\ sweeps' = sweeps + 1
    /\ UNCHANGED scanVars
    /\ UNCHANGED <<now, nextId, pending, completed, failed, orc, hand, slack,
                   faults, sendErrors>>
    /\ UNCHANGED graphVars
    /\ UNCHANGED schedVars

\* list(set(monitored_users) - set(users_responded))
UsersNotResponded(e) == Range(e.monitored_users) \ Range(e.users_responded)

\* the channels the failure message is posted to
FailureTargets(e) ==
    IF ~e.failure_message THEN <<>>
    ELSE IF e.mode = "channel"
    THEN (IF Len(e.monitored_channels) > 0 THEN <<e.monitored_channels[1]>> ELSE <<>>)
    ELSE \* users mode: the i-th non-responder is paired with monitored_channels[i]
         LET n == Cardinality(UsersNotResponded(e))
             m == IF n < Len(e.monitored_channels) THEN n ELSE Len(e.monitored_channels)
         IN  SubSeq(e.monitored_channels, 1, m)

\* the document inserted into failed_executions
FailedDoc(e) ==
    [doc |-> [e EXCEPT !.status = "failed"],
     failure_reason |-> "timeout",
     users_not_responded |-> UsersNotResponded(e)]

\* the sweeper after an exception left check_timeouts
\* a loop without the try: the exception ends the task
SweepStopped == [IdleSweep EXCEPT !.pc = "stopped", !.caught = TRUE]

\* the exception leaves check_timeouts; timeout_checker_loop catches it, logs and sleeps
SweepAborted == [IdleSweep EXCEPT !.caught = TRUE]

\* the sweeper after it finished the execution at index i
SweepAdvance(sw) ==
    IF sw.i < Len(sw.timed_out) THEN [sw EXCEPT !.pc = "mark", !.i = sw.i + 1]
    ELSE IdleSweep

\* one execution of the for loop up to insert_one: the failure message is posted
\* (send_failure_message never raises), the document is marked failed and inserted
SweepMark ==
    /\ sweep.pc = "mark"
    /\ LET e == sweep.timed_out[sweep.i]
       IN  /\ slack' = Posted(slack, "failure", e.id, FailureTargets(e))
           /\ \/ \* insert_one raises (storage error)
                 /\ faults < MaxFaults
                 /\ faults' = faults + 1
                 /\ sweep' = SweepAborted
                 /\ UNCHANGED failed
              \/ \* DuplicateKeyError on _id
                 /\ HasId(failed, e.id)
                 /\ sweep' = SweepAborted
                 /\ UNCHANGED <<failed, faults>>
              \/ /\ ~HasId(failed, e.id)
                 /\ failed' = Append(failed, FailedDoc(e))
                 /\ sweep' = [sweep EXCEPT !.pc = "delete"]
                 /\ UNCHANGED faults
    /\ UNCHANGED scanVars
    /\ UNCHANGED <<now, nextId, pending, completed, orc, hand, sweeps, sendErrors>>
    /\ UNCHANGED graphVars
    /\ UNCHANGED schedVars

SweepDelete ==
    /\ sweep.pc = "delete"
    /\ LET e == sweep.timed_out[sweep.i]
       IN  \/ \* delete_one raises (storage error)
              /\ faults < MaxFaults
              /\ faults' = faults + 1
              /\ sweep' = SweepAborted
              /\ UNCHANGED pending
           \/ /\ pending' = DeleteOne(pending, e.id)
              /\ sweep' = SweepAdvance(sweep)
              /\ UNCHANGED faults
    /\ UNCHANGED scanVars
    /\ UNCHANGED <<now, nextId, completed, failed, orc, hand, slack, sweeps, sendErrors>>
    /\ UNCHANGED graphVars
    /\ UNCHANGED schedVars

\* find(...).to_list(length=n)
ToList(s, n) == IF Len(s) <= n THEN s ELSE SubSeq(s, 1, n)

\* one more tick of timeout_checker_loop, whatever the number of ticks before it
SweepFindAgain ==
    /\ sweep.pc = "sleep"
    /\ LET timed_out == ToList(SelectSeq(pending, LAMBDA d : IsTimedOut(d, now)), SweepLimit)
       IN  sweep' = IF Len(timed_out) > 0
                    THEN [pc |-> "mark", timed_out |-> timed_out, i |-> 1, caught |-> FALSE]
                    ELSE IdleSweep
    /\ UNCHANGED scanVars
    /\ UNCHANGED <<now, nextId, pending, completed, failed, orc, hand, slack,
                   faults, sweeps, sendErrors>>
    /\ UNCHANGED graphVars
    /\ UNCHANGED schedVars

\* wall-clock time passes
Tick ==
    /\ now < MaxClock
    /\ now' = now + 1
    /\ UNCHANGED scanVars
    /\ UNCHANGED <<nextId, pending, completed, failed, orc, hand, sweep, slack,
                   faults, sweeps, sendErrors>>
    /\ UNCHANGED graphVars
    /\ UNCHANGED schedVars

(***************************************************************************)
(* Scan block (_execute_block, "scan"): execute_scan does count_documents, *)
(* delete_many and insert_one on pending_scans, each an await of its own,  *)
(* and the pass returns (result None) without visiting the nodes below.    *)
(***************************************************************************)
ScanIds == 1..(NumScanPasses + MaxPolls)

IsScanning(d, t) == d.template_id = t /\ d.status = "scanning"

StartScanPass(p, t) ==
    /\ LowestFree(p, {q \in ScanPassIds : orc[q].st = "idle"})
    /\ orc' = [orc EXCEPT ![p] = NewOrchestrator(t, GetFirstNodeAfterTrigger(t))]
    /\ UNCHANGED <<now, nextId, slack>>
    /\ UNCHANGED awaitVars
    /\ UNCHANGED scanVars
    /\ UNCHANGED graphVars
    /\ UNCHANGED schedVars

ScanCount(x) ==
    /\ AtBlock(x, "scan")
    /\ LET o == orc[x]
           cnt == Cardinality({i \in 1..Len(scans) : IsScanning(scans[i], o.tpl)})
       IN  orc' = [orc EXCEPT ![x] =
                [o EXCEPT !.visited = o.visited \cup {o.cur},
                          !.cnt = cnt,
                          !.st = IF MustDeletePrior(cnt) THEN "scan_delete"
                                 ELSE "scan_insert"]]
    /\ UNCHANGED <<now, nextId, slack>>
    /\ UNCHANGED awaitVars
    /\ UNCHANGED scanVars
    /\ UNCHANGED graphVars
    /\ UNCHANGED schedVars

ScanDelete(x) ==
    /\ orc[x].st = "scan_delete"
    /\ scans' = SelectSeq(scans, LAMBDA d : ~IsScanning(d, orc[x].tpl))
    /\ orc' = [orc EXCEPT ![x].st = "scan_insert"]
    /\ UNCHANGED <<now, nextId, slack>>
    /\ UNCHANGED awaitVars
    /\ UNCHANGED <<history, poll, scanLog, fired, polls>>
    /\ UNCHANGED graphVars
    /\ UNCHANGED schedVars

\* pending_doc of execute_scan; last_message_ts None is written 0, below every timestamp
ScanDoc(o, id, at) ==
    [id |-> id,
     template_id |-> o.tpl,
     status |-> "scanning",
     command |-> Lower(ScanCommand(o.tpl)),
     interval_seconds |-> ScanInterval,
     next_check_at |-> at,
     last_message_ts |-> 0,
     times_triggered |-> 0,
     last_error |-> FALSE]

ScanInsert(x) ==
    /\ orc[x].st = "scan_insert"
    /\ nextId \in ScanIds
    /\ scans' = Append(scans, ScanDoc(orc[x], nextId, now))
    /\ nextId' = nextId + 1
    /\ orc' = [orc EXCEPT ![x].st = "scanning"]
    /\ UNCHANGED <<now, slack>>
    /\ UNCHANGED awaitVars
    /\ UNCHANGED <<history, poll, scanLog, fired, polls>>
    /\ UNCHANGED graphVars
    /\ UNCHANGED schedVars

(***************************************************************************)
(* check_channel_for_command: the newest messages after the cursor, newest *)
(* first; the first one that contains the command ends the loop.           *)
(***************************************************************************)
\* somebody posts to the watched channel; Slack stamps the message
PostToChannel(text) ==
    /\ Len(history) < MaxHistory
    /\ history' = Append(history, [ts |-> Len(history) + 1, text |-> text])
    /\ UNCHANGED <<now, nextId, orc, slack>>
    /\ UNCHANGED awaitVars
    /\ UNCHANGED <<scans, poll, scanLog, fired, polls>>
    /\ UNCHANGED graphVars
    /\ UNCHANGED schedVars

\* the history handed over oldest first
FetchHistoryOldestFirst(hist, oldest) ==
    LET newer == SelectSeq(hist, LAMBDA m : oldest = 0 \/ m.ts > oldest)
        n == IF Len(newer) < HistoryLimit THEN Len(newer) ELSE HistoryLimit
    IN  [i \in 1..n |-> newer[Len(newer) - n + i]]

\* conversations.history(limit, oldest): newest first, strictly after `oldest`
FetchHistory(hist, oldest) ==
    LET newer == SelectSeq(hist, LAMBDA m : oldest = 0 \/ m.ts > oldest)
        n == IF Len(newer) < HistoryLimit THEN Len(newer) ELSE HistoryLimit
    IN  [i \in 1..n |-> newer[Len(newer) + 1 - i]]

RECURSIVE ScanMessages(_, _, _, _)
\* the for loop over the messages, from index i with latest_ts so far
ScanMessages(messages, i, latest_ts, command) ==
    IF i > Len(messages)
    THEN [found |-> FALSE, timestamp |-> 0, latest_ts |-> latest_ts]
    ELSE LET m == messages[i]
             latest == IF latest_ts = 0 \/ m.ts > latest_ts THEN m.ts ELSE latest_ts
         IN  IF IsSubstring(Lower(command), Lower(m.text))
             THEN [found |-> TRUE, timestamp |-> m.ts, latest_ts |-> latest]
             ELSE ScanMessages(messages, i + 1, latest, command)

CheckChannelForCommand(hist, command, last_message_ts) ==
    ScanMessages(FetchHistory(hist, last_message_ts), 1, last_message_ts, command)

(***************************************************************************)
(* The poller: scan_checker_loop / check_scans / process_scan_trigger.     *)
(* One tick reads the watches that are due and, for each in turn, fetches  *)
(* the channel history, writes update_data to the watch and, on a match,   *)
(* awaits a pass built from the stored chain and logs it.                  *)
(***************************************************************************)
NoResult == [found |-> FALSE, timestamp |-> 0, latest_ts |-> 0]

NoUpdate == [next_check_at |-> 0, last_message_ts |-> 0, times_triggered |-> 0]

IdlePoll == [pc |-> "sleep", due |-> <<>>, i |-> 0, result |-> NoResult,
             update_data |-> NoUpdate, error |-> "none", caught |-> FALSE]

IsDue(d, t) == d.status = "scanning" /\ d.next_check_at <= t

PollFind ==
    /\ poll.pc = "sleep"
    /\ polls < MaxPolls
    /\ LET due == SelectSeq(scans, LAMBDA d : IsDue(d, now))
       IN  /\ Len(due) > 0
           /\ poll' = [IdlePoll EXCEPT !.pc = "fetch", !.due = due, !.i = 1]
    /\ polls' = polls + 1
    /\ UNCHANGED <<now, nextId, orc, slack>>
    /\ UNCHANGED awaitVars
    /\ UNCHANGED <<scans, history, scanLog, fired>>
    /\ UNCHANGED graphVars
    /\ UNCHANGED schedVars

\* the exception leaves check_scans; scan_checker_loop catches it, logs and sleeps
PollAborted == [IdlePoll EXCEPT !.caught = TRUE]

\* one more tick of scan_checker_loop, whatever the number of ticks before it; the find
\* it starts with may raise (storage error)
PollFindAgain ==
    /\ poll.pc = "sleep"
    /\ LET due == ToList(SelectSeq(scans, LAMBDA d : IsDue(d, now)), SweepLimit)
       IN  \/ /\ faults < MaxFaults
              /\ faults' = faults + 1
              /\ poll' = PollAborted
           \/ /\ poll' = IF Len(due) > 0
                          THEN [IdlePoll EXCEPT !.pc = "fetch", !.due = due, !.i = 1]
                          ELSE IdlePoll
              /\ UNCHANGED faults
    /\ UNCHANGED <<now, nextId, orc, slack>>
    /\ UNCHANGED <<pending, completed, failed, hand, sweep, sweeps, sendErrors>>
    /\ UNCHANGED <<scans, history, scanLog, fired, polls>>
    /\ UNCHANGED graphVars
    /\ UNCHANGED schedVars

\* update_data, built from the result of the fetch and the watch as the tick read it
UpdateData(scan, result, at) ==
    [next_check_at |-> at + scan.interval_seconds,
     last_message_ts |-> result.latest_ts,
     times_triggered |-> IF result.found THEN scan.times_triggered + 1
                         ELSE scan.times_triggered]

PollFetch ==
    /\ poll.pc = "fetch"
    /\ LET scan == poll.due[poll.i]
           result == CheckChannelForCommand(history, scan.command, scan.last_message_ts)
       IN  poll' = [poll EXCEPT !.pc = "update", !.result = result,
                                !.update_data = UpdateData(scan, result, now)]
    /\ UNCHANGED <<now, nextId, orc, slack>>
    /\ UNCHANGED awaitVars
    /\ UNCHANGED <<scans, history, scanLog, fired, polls>>
    /\ UNCHANGED graphVars
    /\ UNCHANGED schedVars

\* update_one({"_id": id}, {"$set": update_data}); no document, no write
SetUpdate(store, id, u) ==
    [k \in 1..Len(store) |->
        IF store[k].id = id
        THEN [store[k] EXCEPT !.next_check_at = u.next_check_at,
                              !.last_message_ts = u.last_message_ts,
                              !.times_triggered = u.times_triggered]
        ELSE store[k]]

\* the next watch of the tick, or the sleep of the loop
PollAdvance(pl) ==
    IF pl.i < Len(pl.due)
    THEN [pl EXCEPT !.pc = "fetch", !.i = pl.i + 1, !.result = NoResult,
                    !.update_data = NoUpdate, !.error = "none"]
    ELSE IdlePoll

PollUpdate ==
    /\ poll.pc = "update"
    /\ LET scan == poll.due[poll.i]
       IN  /\ scans' = SetUpdate(scans, scan.id, poll.update_data)
           /\ IF poll.result.found
              THEN /\ poll' = [poll EXCEPT !.pc = "trigger"]
                   /\ fired' = Append(fired, poll.result.timestamp)
                   /\ orc' = [orc EXCEPT ![PollId] =
                        NewOrchestrator(scan.template_id,
                                        GetFirstNodeAfterTrigger(scan.template_id))]
              ELSE /\ poll' = PollAdvance(poll)
                   /\ UNCHANGED <<fired, orc>>
    /\ UNCHANGED <<now, nextId, slack>>
    /\ UNCHANGED awaitVars
    /\ UNCHANGED <<history, scanLog, polls>>
    /\ UNCHANGED graphVars
    /\ UNCHANGED schedVars

\* the ways conversations.history fails: Slack answers ok: false, or the request raises
FetchErrors == {"api", "transport"}

\* check_channel_for_command when the fetch fails: an answer with ok: false gives a
\* result without a match and with the cursor as it was, an exception of the HTTP client
\* leaves the function and the try block of check_scans
PollFetchError(kind) ==
    /\ poll.pc = "fetch"
    /\ faults < MaxFaults
    /\ faults' = faults + 1
    /\ LET scan == poll.due[poll.i]
           result == [found |-> FALSE, timestamp |-> 0, latest_ts |-> scan.last_message_ts]
       IN  poll' = IF kind = "api"
                   THEN [poll EXCEPT !.pc = "update", !.result = result, !.error = kind,
                                     !.update_data = UpdateData(scan, result, now)]
                   ELSE [poll EXCEPT !.pc = "except", !.error = kind]
    /\ UNCHANGED <<now, nextId, orc, slack>>
    /\ UNCHANGED <<pending, completed, failed, hand, sweep, sweeps, sendErrors>>
    /\ UNCHANGED <<scans, history, scanLog, fired, polls>>
    /\ UNCHANGED graphVars
    /\ UNCHANGED schedVars

\* the except branch of check_scans: update_one with next_check_at and last_error
PollRecordError ==
    /\ poll.pc = "except"
    /\ LET scan == poll.due[poll.i]
       IN  scans' = [k \in 1..Len(scans) |->
                        IF scans[k].id = scan.id
                        THEN [scans[k] EXCEPT !.next_check_at = now + scan.interval_seconds,
                                              !.last_error = TRUE]
                        ELSE scans[k]]
    /\ poll' = PollAdvance(poll)
    /\ UNCHANGED <<now, nextId, orc, slack>>
    /\ UNCHANGED awaitVars
    /\ UNCHANGED <<history, scanLog, fired, polls>>
    /\ UNCHANGED graphVars
    /\ UNCHANGED schedVars

\* orchestrator.execute() of process_scan_trigger has returned
TriggeredPassOver == poll.pc = "trigger" /\ orc[PollId].st \in {"finished", "scanning"}

PollLog ==
    /\ TriggeredPassOver
    /\ scanLog' = Append(scanLog, [template_id |-> poll.due[poll.i].template_id,
                                   results |-> orc[PollId].trace,
                                   status |-> "completed"])
    /\ orc' = [orc EXCEPT ![PollId] = IdleOrc]
    /\ poll' = PollAdvance(poll)
    /\ UNCHANGED <<now, nextId, slack>>
    /\ UNCHANGED awaitVars
    /\ UNCHANGED <<scans, history, fired, polls>>
    /\ UNCHANGED graphVars
    /\ UNCHANGED schedVars

ScanTick ==
    /\ now < MaxScanClock
    /\ now' = now + 1
    /\ UNCHANGED <<nextId, orc, slack>>
    /\ UNCHANGED awaitVars
    /\ UNCHANGED scanVars
    /\ UNCHANGED graphVars
    /\ UNCHANGED schedVars

(***************************************************************************)
(* The await subsystem as a whole.                                         *)
(***************************************************************************)
InitStores ==
    /\ now = 0
    /\ nextId = 1
    /\ pending = <<>>
    /\ completed = <<>>
    /\ failed = <<>>
    /\ orc = [x \in Procs \cup ScanProcs \cup {GraphPassId} |-> IdleOrc]
    /\ hand = [h \in HandlerIds |-> IdleHandler]
    /\ sweep = IdleSweep
    /\ slack = [k \in SlackKeys |-> 0]
    /\ faults = 0
    /\ sweeps = 0
    /\ sendErrors = 0
    /\ scans = <<>>
    /\ history = <<>>
    /\ poll = IdlePoll
    /\ scanLog = <<>>
    /\ fired = <<>>
    /\ polls = 0

InitNoSchedules ==
    /\ schedules = [j \in JobIds |-> NoEntry]
    /\ timers = {}
    /\ loader = [pc |-> "done", active |-> <<>>, i |-> 1, faults |-> 0]
    /\ req = IdleRequest

Init == InitStores /\ defn = NoDefinition /\ cond = NoCondition /\ InitNoSchedules

\* every step but the delivery of an inbound event
AwaitSteps ==
    \/ \E p \in PassIds, t \in Templates : StartPass(p, t)
    \/ \E x \in Procs : ExecMessage(x)
    \/ \E x \in Procs : AwaitCount(x)
    \/ \E x \in Procs : AwaitDelete(x)
    \/ \E x \in Procs : AwaitInsert(x)
    \/ \E x \in Procs : ExecResponse(x)
    \/ \E h \in HandlerIds : HandleMatch(h)
    \/ \E h \in HandlerIds : HandlerFindOne(h)
    \/ \E h \in HandlerIds : HandlerInsert(h)
    \/ \E h \in HandlerIds : HandlerDelete(h)
    \/ SweepFind
    \/ SweepMark
    \/ SweepDelete
    \/ Tick

Next ==
    \/ AwaitSteps
    \/ \E h \in HandlerIds, place \in EventPlaces, text \in Texts :
          Deliver(h, place[1], place[2], text)

Spec == Init /\ [][Next]_vars

(***************************************************************************)
(* The same system when inbound events are handled one after the other: an *)
(* event is delivered only when no other handler is under way.  Passes and *)
(* the sweeper interleave as before.                                       *)
(***************************************************************************)
HandlersQuiet == \A h \in HandlerIds : hand[h].pc \in {"idle", "done", "raised"}

DeliverNext(h, u, c, text) == HandlersQuiet /\ Deliver(h, u, c, text)

NextSerial ==
    \/ AwaitSteps
    \/ \E h \in HandlerIds, place \in EventPlaces, text \in Texts :
          DeliverNext(h, place[1], place[2], text)

SpecSerial == Init /\ [][NextSerial]_vars

(***************************************************************************)
(* The await subsystem with the workflow T5 deployed: a definition with    *)
(* more than one Await node.                                               *)
(***************************************************************************)
NextMulti ==
    \/ \E p \in PassIds, t \in MultiTemplates : StartPass(p, t)
    \/ \E x \in Procs : ExecMessage(x)
    \/ \E x \in Procs : AwaitCount(x)
    \/ \E x \in Procs : AwaitDelete(x)
    \/ \E x \in Procs : AwaitInsert(x)
    \/ \E x \in Procs : ExecResponse(x)
    \/ \E h \in HandlerIds : HandleMatch(h)
    \/ \E h \in HandlerIds : HandlerFindOne(h)
    \/ \E h \in HandlerIds : HandlerInsert(h)
    \/ \E h \in HandlerIds : HandlerDelete(h)
    \/ SweepFind
    \/ SweepMark
    \/ SweepDelete
    \/ Tick
    \/ \E h \in HandlerIds, place \in EventPlaces, text \in Texts :
          Deliver(h, place[1], place[2], text)

SpecMulti == Init /\ [][NextMulti]_vars

\* the workflow T8, whose resumed pass reaches a second Await block
NextChain ==
    \/ \E p \in PassIds, t \in ChainTemplates : StartPass(p, t)
    \/ \E x \in Procs : ExecMessage(x)
    \/ \E x \in Procs : AwaitCount(x)
    \/ \E x \in Procs : AwaitDelete(x)
    \/ \E x \in Procs : AwaitInsert(x)
    \/ \E h \in HandlerIds : HandleMatch(h)
    \/ \E h \in HandlerIds : HandlerFindOne(h)
    \/ \E h \in HandlerIds : HandlerInsert(h)
    \/ \E h \in HandlerIds : HandlerDelete(h)
    \/ SweepFind
    \/ SweepMark
    \/ SweepDelete
    \/ Tick
    \/ \E h \in HandlerIds, place \in EventPlaces, text \in Texts :
          Deliver(h, place[1], place[2], text)

SpecChain == Init /\ [][NextChain]_vars

(***************************************************************************)
(* The sweeper loop running for ever over the runs of passes that nobody   *)
(* answers: timeout_checker_loop takes a further tick after every tick,    *)
(* and a tick that has started is carried through.                         *)
(***************************************************************************)
SweeperSteps == SweepFindAgain \/ SweepMark \/ SweepDelete

NextSweep ==
    \/ \E p \in PassIds, t \in QuietTemplates : StartPass(p, t)
    \/ \E x \in PassIds : ExecMessage(x)
    \/ \E x \in PassIds : AwaitCount(x)
    \/ \E x \in PassIds : AwaitDelete(x)
    \/ \E x \in PassIds : AwaitInsert(x)
    \/ SweepFindAgain
    \/ SweepMark
    \/ SweepDelete
    \/ Tick

SpecSweep == Init /\ [][NextSweep]_vars /\ WF_vars(SweeperSteps)

(***************************************************************************)
(* The two background loops running for ever, next to passes that suspend  *)
(* and are not answered and a pass that starts a watch on a silent channel.*)
(***************************************************************************)
PollerSteps == PollFindAgain \/ PollFetch \/ PollUpdate

NextLoops ==
    \/ \E p \in PassIds : StartPass(p, "T6")
    \/ \E x \in PassIds : ExecMessage(x)
    \/ \E x \in PassIds : AwaitCount(x)
    \/ \E x \in PassIds : AwaitDelete(x)
    \/ \E x \in PassIds : AwaitInsert(x)
    \/ SweepFindAgain
    \/ SweepMark
    \/ SweepDelete
    \/ Tick
    \/ \E p \in ScanPassIds : StartScanPass(p, "T3")
    \/ \E x \in ScanPassIds : ScanCount(x)
    \/ \E x \in ScanPassIds : ScanDelete(x)
    \/ \E x \in ScanPassIds : ScanInsert(x)
    \/ PollFindAgain
    \/ PollFetch
    \/ PollUpdate

SpecLoops ==
    Init /\ [][NextLoops]_vars /\ WF_vars(SweeperSteps) /\ WF_vars(PollerSteps)

(***************************************************************************)
(* Passes of the workflows whose Message carries a file.                   *)
(***************************************************************************)
NextUpload ==
    \/ \E p \in PassIds, t \in FileTemplates : StartPass(p, t)
    \/ \E x \in PassIds : ExecMessageFile(x)
    \/ \E x \in PassIds : AwaitCount(x)
    \/ \E x \in PassIds : AwaitDelete(x)
    \/ \E x \in PassIds : AwaitInsert(x)

SpecUpload == Init /\ [][NextUpload]_vars

(***************************************************************************)
(* Passes of the workflow A, whose Await is edited between the passes.     *)
(***************************************************************************)
NextEdited ==
    \/ \E p \in PassIds, t \in EditedTemplates : StartPass(p, t)
    \/ \E x \in PassIds : ExecMessage(x)
    \/ \E x \in PassIds : AwaitCount(x)
    \/ \E x \in PassIds : AwaitDelete(x)
    \/ \E x \in PassIds : AwaitInsert(x)

SpecEdited == Init /\ [][NextEdited]_vars

(***************************************************************************)
(* Graph passes: one pass over the workflow G, whatever its definition and *)
(* whatever the node the pass is entered at.                               *)
(***************************************************************************)
\* _execute_graph(start_from_node): the given node or the first one after the trigger
StartGraphPass(start) ==
    /\ orc[GraphPassId].st = "idle"
    /\ orc' = [orc EXCEPT ![GraphPassId] =
            IF ValidateTemplate(defn)
            THEN NewOrchestrator(GraphTemplate,
                                 IF start # None THEN start
                                 ELSE GetFirstNodeAfterTrigger(GraphTemplate))
            ELSE [IdleOrc EXCEPT !.st = "rejected"]]
    /\ UNCHANGED <<now, nextId, slack>>
    /\ UNCHANGED awaitVars
    /\ UNCHANGED scanVars
    /\ UNCHANGED graphVars
    /\ UNCHANGED schedVars

\* a node id without a type in node_to_block: skipped along its default output
SkipUnknown(x) ==
    /\ AtBlock(x, None)
    /\ orc' = [orc EXCEPT ![x] =
            Skip(orc[x], GetNextNode(orc[x].tpl, orc[x].cur, "bottom"))]
    /\ UNCHANGED <<now, nextId, slack>>
    /\ UNCHANGED awaitVars
    /\ UNCHANGED scanVars
    /\ UNCHANGED graphVars
    /\ UNCHANGED schedVars

\* a kind without an executor: _execute_block returns an error result and the loop goes on
ExecUnknownKind(x) ==
    /\ AtBlock(x, UnknownKind)
    /\ orc' = [orc EXCEPT ![x] =
            Advance(orc[x], [node |-> orc[x].cur, block |-> UnknownKind, sent |-> <<>>],
                    GetNextNode(orc[x].tpl, orc[x].cur, "bottom"))]
    /\ UNCHANGED <<now, nextId, slack>>
    /\ UNCHANGED awaitVars
    /\ UNCHANGED scanVars
    /\ UNCHANGED graphVars
    /\ UNCHANGED schedVars

InitGraph == InitStores /\ defn \in Definitions /\ cond = NoCondition /\ InitNoSchedules

NextGraph ==
    \/ \E start \in Targets : StartGraphPass(start)
    \/ ExecMessage(GraphPassId)
    \/ SkipUnknown(GraphPassId)
    \/ ExecUnknownKind(GraphPassId)

SpecGraph == InitGraph /\ [][NextGraph]_vars

(***************************************************************************)
(* The scheduler: the persisted entries of active_schedules, the timers    *)
(* registered with the in-process scheduler, the restoration at startup   *)
(* and the schedule/start and schedule/stop requests.                      *)
(***************************************************************************)
\* parse_schedule_config: the trigger built, or ValueError
ParseScheduleConfig(c) ==
    IF c.regularity = "interval"
    THEN IF c.interval_minutes = None THEN "ValueError" ELSE "IntervalTrigger"
    ELSE IF c.regularity = "once"
    THEN IF c.date = None THEN "ValueError" ELSE "DateTrigger"
    ELSE IF c.time = None THEN "ValueError"
    ELSE IF c.regularity = "daily" THEN "CronTrigger"
    ELSE IF c.regularity = "weekly"
    THEN IF c.day_of_week = None THEN "ValueError" ELSE "CronTrigger"
    ELSE IF c.regularity = "monthly"
    THEN IF c.day_of_month = None THEN "ValueError" ELSE "CronTrigger"
    ELSE "ValueError"

\* find({"status": "active"}) keeping every entry
AllEntries == SelectSeq(JobOrder, LAMBDA j : schedules[j].present)

\* find({"status": "active"}).to_list(): the entries read, in collection order
ActiveEntries ==
    SelectSeq(JobOrder, LAMBDA j : schedules[j].present /\ schedules[j].status = "active")

\* the upsert as an insert-if-absent: an entry that exists is left as it is
UpsertIfAbsent(rows, t, w, c) ==
    IF rows[JobId(t, w)].present THEN rows
    ELSE [rows EXCEPT ![JobId(t, w)] =
             [present |-> TRUE, job_id |-> JobId(t, w), template_id |-> t,
              workspace_id |-> w, schedule_config |-> c, status |-> "active"]]

\* update_one({"job_id": job_id}, {"$set": {..., "status": "active"}}, upsert=True)
Upsert(rows, t, w, c) ==
    [rows EXCEPT ![JobId(t, w)] =
        [present |-> TRUE, job_id |-> JobId(t, w), template_id |-> t, workspace_id |-> w,
         schedule_config |-> c, status |-> "active"]]

\* update_one({"job_id": job_id}, {"$set": {"status": "stopped"}})
SetStopped(rows, job) ==
    IF job \in JobIds /\ rows[job].present
    THEN [rows EXCEPT ![job].status = "stopped"]
    ELSE rows

\* load_active_schedules: the query
LoadFind ==
    /\ loader.pc = "find"
    /\ loader' = [loader EXCEPT !.pc = "loop",
                                !.active = [k \in 1..Len(ActiveEntries) |->
                                               schedules[ActiveEntries[k]]],
                                !.i = 1]
    /\ UNCHANGED <<now, nextId, slack, orc, schedules, timers, req>>
    /\ UNCHANGED awaitVars
    /\ UNCHANGED scanVars
    /\ UNCHANGED graphVars

\* schedule_template up to its storage call: the spec is parsed and the job added with
\* replace_existing; a spec that does not parse raises and the loop goes to the next entry
LoadSchedule ==
    /\ loader.pc = "loop"
    /\ loader.i <= Len(loader.active)
    /\ LET e == loader.active[loader.i]
       IN  IF ParseScheduleConfig(e.schedule_config) = "ValueError"
           THEN /\ loader' = [loader EXCEPT !.i = @ + 1]
                /\ UNCHANGED timers
           ELSE /\ timers' = timers \cup {JobId(e.template_id, e.workspace_id)}
                /\ loader' = [loader EXCEPT !.pc = "update"]
    /\ UNCHANGED <<now, nextId, slack, orc, schedules, req>>
    /\ UNCHANGED awaitVars
    /\ UNCHANGED scanVars
    /\ UNCHANGED graphVars

\* the storage call of schedule_template; when it raises, the except clause of the
\* restoration loop takes the next entry
LoadUpdate ==
    /\ loader.pc = "update"
    /\ LET e == loader.active[loader.i]
       IN  \/ /\ schedules' = Upsert(schedules, e.template_id, e.workspace_id,
                                      e.schedule_config)
              /\ loader' = [loader EXCEPT !.pc = "loop", !.i = @ + 1]
           \/ /\ loader.faults < MaxLoadFaults
              /\ loader' = [loader EXCEPT !.pc = "loop", !.i = @ + 1, !.faults = @ + 1]
              /\ UNCHANGED schedules
    /\ UNCHANGED <<now, nextId, slack, orc, timers, req>>
    /\ UNCHANGED awaitVars
    /\ UNCHANGED scanVars
    /\ UNCHANGED graphVars

\* the loop is over: startup goes on and requests are served
LoadFinish ==
    /\ loader.pc = "loop"
    /\ loader.i > Len(loader.active)
    /\ loader' = [loader EXCEPT !.pc = "done"]
    /\ UNCHANGED <<now, nextId, slack, orc, schedules, timers, req>>
    /\ UNCHANGED awaitVars
    /\ UNCHANGED scanVars
    /\ UNCHANGED graphVars

\* scheduler.remove_job without the removal
KeepJob(ts, job) == ts

\* if scheduler.get_job(job_id): scheduler.remove_job(job_id)
RemoveJob(ts, job) == ts \ {job}

\* schedule/start: schedule_template up to its storage call
ScheduleAdd(t, w, c) ==
    /\ loader.pc = "done"
    /\ req.pc \in {"idle", "done"}
    /\ req.n < MaxRequests
    /\ IF ParseScheduleConfig(c) = "ValueError"
       THEN /\ req' = [req EXCEPT !.pc = "done", !.op = "schedule", !.job = JobId(t, w),
                                  !.n = @ + 1]
            /\ UNCHANGED timers
       ELSE /\ timers' = timers \cup {JobId(t, w)}
            /\ req' = [pc |-> "schedule_update", op |-> "schedule", job |-> JobId(t, w),
                       schedule_config |-> c, n |-> req.n + 1]
    /\ UNCHANGED <<now, nextId, slack, orc, schedules, loader>>
    /\ UNCHANGED awaitVars
    /\ UNCHANGED scanVars
    /\ UNCHANGED graphVars

\* schedule/start: the upsert of schedule_template
ScheduleUpdate ==
    /\ req.pc = "schedule_update"
    /\ schedules' = Upsert(schedules, req.job[1], req.job[3], req.schedule_config)
    /\ req' = [req EXCEPT !.pc = "done"]
    /\ UNCHANGED <<now, nextId, slack, orc, timers, loader>>
    /\ UNCHANGED awaitVars
    /\ UNCHANGED scanVars
    /\ UNCHANGED graphVars

\* unschedule_template up to its storage call
UnscheduleRemove(job) ==
    /\ loader.pc = "done"
    /\ req.pc \in {"idle", "done"}
    /\ req.n < MaxRequests
    /\ timers' = RemoveJob(timers, job)
    /\ req' = [req EXCEPT !.pc = "unschedule_update", !.op = "unschedule", !.job = job,
                          !.n = @ + 1]
    /\ UNCHANGED <<now, nextId, slack, orc, schedules, loader>>
    /\ UNCHANGED awaitVars
    /\ UNCHANGED scanVars
    /\ UNCHANGED graphVars

\* unschedule_template: the status update
UnscheduleUpdate ==
    /\ req.pc = "unschedule_update"
    /\ schedules' = SetStopped(schedules, req.job)
    /\ req' = [req EXCEPT !.pc = "done"]
    /\ UNCHANGED <<now, nextId, slack, orc, timers, loader>>
    /\ UNCHANGED awaitVars
    /\ UNCHANGED scanVars
    /\ UNCHANGED graphVars

\* passes started by execute_scheduled_template so far
Fires ==
    Cardinality({p \in PassIds \cup ScanPassIds : orc[p].st # "idle"})

\* a timer fires: execute_scheduled_template builds the orchestrator and runs the pass
FireJob(job) ==
    /\ job \in timers
    /\ Fires < MaxFires
    /\ IF job[1] \in ScanTemplates
       THEN \E p \in ScanPassIds : StartScanPass(p, job[1])
       ELSE \E p \in PassIds : StartPass(p, job[1])

InitSchedule ==
    /\ InitStores
    /\ defn = NoDefinition
    /\ cond = NoCondition
    /\ schedules \in [JobIds -> EntryStates]
    /\ \A j \in JobIds : schedules[j].present => schedules[j].job_id = j
    /\ timers = {}
    /\ loader = [pc |-> "find", active |-> <<>>, i |-> 1, faults |-> 0]
    /\ req = IdleRequest

NextSchedule ==
    \/ LoadFind
    \/ LoadSchedule
    \/ LoadUpdate
    \/ LoadFinish
    \/ \E t \in ScheduledTemplates, w \in Workspaces, c \in ScheduleConfigs :
          ScheduleAdd(t, w, c)
    \/ ScheduleUpdate
    \/ \E j \in JobIds : UnscheduleRemove(j)
    \/ UnscheduleUpdate
    \/ \E j \in JobIds : FireJob(j)
    \/ \E x \in PassIds \cup ScanPassIds : ExecMessage(x)
    \/ \E x \in PassIds : AwaitCount(x)
    \/ \E x \in PassIds : AwaitDelete(x)
    \/ \E x \in PassIds : AwaitInsert(x)
    \/ \E x \in ScanPassIds : ScanCount(x)
    \/ \E x \in ScanPassIds : ScanDelete(x)
    \/ \E x \in ScanPassIds : ScanInsert(x)
    \/ loader.pc = "done" /\ SweepFind
    \/ SweepMark
    \/ SweepDelete
    \/ loader.pc = "done" /\ Tick

SpecSchedule == InitSchedule /\ [][NextSchedule]_vars

\* the request handler has returned its response: the next request is served
RequestServed ==
    /\ req.pc = "done"
    /\ req' = IdleRequest
    /\ UNCHANGED <<now, nextId, slack, orc, schedules, timers, loader>>
    /\ UNCHANGED awaitVars
    /\ UNCHANGED scanVars
    /\ UNCHANGED graphVars

\* the entries schedule_template and unschedule_template can have written: every
\* persisted spec has been parsed before it was stored
InitRequests ==
    /\ InitSchedule
    /\ \A j \in JobIds :
          schedules[j].present => ParseScheduleConfig(schedules[j].schedule_config) # "ValueError"

\* a second spec that parses: daily at 09:00
DailyConfig ==
    [regularity |-> "daily", interval_minutes |-> None, date |-> None, time |-> "09:00",
     day_of_week |-> None, day_of_month |-> None]

\* startup followed by any number of schedule/start and schedule/stop requests, one
\* after the other
NextRequests ==
    \/ LoadFind
    \/ LoadSchedule
    \/ LoadUpdate
    \/ LoadFinish
    \/ \E t \in ScheduledTemplates, w \in Workspaces, c \in ScheduleConfigs \cup {DailyConfig} :
          ScheduleAdd(t, w, c)
    \/ ScheduleUpdate
    \/ \E j \in JobIds : UnscheduleRemove(j)
    \/ UnscheduleUpdate
    \/ RequestServed

SpecRequests == InitRequests /\ [][NextRequests]_vars

(***************************************************************************)
(* The Condition block.                                                    *)
(***************************************************************************)
\* str.startswith
StartsWith(s, prefix) == Len(prefix) <= Len(s) /\ SubSeq(s, 1, Len(prefix)) = prefix

\* str.endswith
EndsWith(s, suffix) ==
    Len(suffix) <= Len(s) /\ SubSeq(s, Len(s) - Len(suffix) + 1, Len(s)) = suffix

\* evaluate_condition, for the operators on text
EvaluateCondition(value, operator, expected) ==
    LET value_lower == Strip(Lower(value))
        expected_lower == Strip(Lower(expected))
    IN  CASE operator = "equals" -> value_lower = expected_lower
          [] operator = "not_equals" -> value_lower # expected_lower
          [] operator = "contains" -> IsSubstring(expected_lower, value_lower)
          [] operator = "not_contains" -> ~IsSubstring(expected_lower, value_lower)
          [] operator = "starts_with" -> StartsWith(value_lower, expected_lower)
          [] operator = "ends_with" -> EndsWith(value_lower, expected_lower)
          [] operator = "is_empty" -> Len(Strip(value)) = 0
          [] operator = "is_not_empty" -> Len(Strip(value)) > 0
          [] OTHER -> FALSE

\* dict.get(key, default)
GetOr(v, default) == IF v = None THEN default ELSE v

\* the for loop of execute_condition from rule i on: the index of the rule it returns at,
\* 0 when it runs to the end
RECURSIVE FirstMatch(_, _, _)
FirstMatch(conditions, i, value) ==
    IF i > Len(conditions) THEN 0
    ELSE IF EvaluateCondition(value, GetOr(conditions[i].operator, "equals"),
                              conditions[i].value)
         THEN i
         ELSE FirstMatch(conditions, i + 1, value)

ConditionResult(config, value, i) ==
    IF i > 0
    THEN [matched |-> TRUE, condition_index |-> i - 1,
          output_side |-> GetOr(config.conditions[i].output_side, "bottom"),
          evaluated_value |-> value]
    ELSE [matched |-> FALSE, condition_index |-> -1,
          output_side |-> GetOr(config.default_output, "bottom"),
          evaluated_value |-> value]

\* the loop returning at the last rule that matches
ExecuteConditionLastMatch(config, context) ==
    LET value == context.last_response
        matching == {i \in 1..Len(config.conditions) :
                        EvaluateCondition(value, GetOr(config.conditions[i].operator, "equals"),
                                          config.conditions[i].value)}
        last == IF matching = {} THEN 0
                ELSE CHOOSE i \in matching : \A j \in matching : j <= i
    IN  ConditionResult(config, value, last)

\* execute_condition with variable "last_response"
ExecuteCondition(config, context) ==
    LET value == context.last_response
    IN  ConditionResult(config, value, FirstMatch(config.conditions, 1, value))

Operators ==
    {"equals", "not_equals", "contains", "not_contains", "starts_with", "ends_with",
     "is_empty", "is_not_empty", "sounds_like", None}

ExpectedValues == {<<"G", "o", " ">>, <<"n", "o">>}

ResponseValues ==
    {<<"g", "o">>, <<" ", "G", "O">>, <<"n", "o">>, <<"p", "o", "n", "g">>, <<" ">>, <<>>}

OutputSides == {"right", "left", None}

Rules == [operator : Operators, value : ExpectedValues, output_side : OutputSides \ {"left"}]

ConditionConfigs ==
    [conditions : UNION {[1..n -> Rules] : n \in 0..MaxRules},
     default_output : OutputSides \ {"right"}]

\* _execute_block, block_name == "condition"
EvalCondition ==
    /\ cond.pc = "ready"
    /\ cond' = [cond EXCEPT !.result = ExecuteCondition(cond.config, cond.context),
                            !.pc = "done"]
    /\ UNCHANGED <<now, nextId, slack, orc, defn>>
    /\ UNCHANGED awaitVars
    /\ UNCHANGED scanVars
    /\ UNCHANGED schedVars

InitCondition ==
    /\ InitStores
    /\ defn = NoDefinition
    /\ InitNoSchedules
    /\ cond \in [config : ConditionConfigs,
                  context : [last_response : ResponseValues],
                  result : {NoConditionResult},
                  pc : {"ready"}]

NextCondition == EvalCondition

SpecCondition == InitCondition /\ [][NextCondition]_vars

(***************************************************************************)
(* Passes over a workflow that branches: n1 is a Condition node with up to *)
(* three outputs, n2 and n3 are Message nodes.                             *)
(***************************************************************************)
Sides == {"bottom", "right", "left"}

BranchConnections(out, after) ==
    {[from |-> "trigger-node", side |-> "bottom", to |-> "n1"]}
        \cup {[from |-> "n1", side |-> sd, to |-> out[sd]] : sd \in {e \in Sides : out[e] # None}}
        \cup {[from |-> "n2", side |-> "bottom", to |-> after] : e \in {after} \ {None}}

BranchDefinitions ==
    {[type |-> [n \in GraphNodes |-> IF n = "n1" THEN "condition" ELSE "message"],
      connections |-> BranchConnections(out, after),
      format |-> "new",
      blocks |-> <<[kind |-> "message", config |-> TRUE]>>] :
        out \in [Sides -> {"n2", "n3", None}], after \in {"n3", None}}

BranchConfigs ==
    [conditions : UNION {[1..n -> [operator : {"equals"}, value : ExpectedValues,
                                   output_side : OutputSides]] : n \in 0..1},
     default_output : OutputSides \ {"right"}]

\* the side without the matching: every node left along its default output
NextNodeBottom(t, n, kind, result) == GetNextNode(t, n, "bottom")

\* the end of an iteration of _execute_graph: a Condition node is left along the
\* output_side of its result, every other node along "bottom"
NextNode(t, n, kind, result) ==
    IF kind = "condition"
    THEN GetNextNode(t, n, result.output_side)
    ELSE GetNextNode(t, n, "bottom")

\* _execute_block, block_name == "condition", and the rest of the iteration
ExecCondition(x) ==
    /\ AtBlock(x, "condition")
    /\ LET result == ExecuteCondition(cond.config, cond.context)
       IN  /\ cond' = [cond EXCEPT !.result = result, !.pc = "done"]
           /\ orc' = [orc EXCEPT ![x] =
                   Advance(orc[x], [node |-> orc[x].cur, block |-> "condition", sent |-> <<>>],
                           NextNode(orc[x].tpl, orc[x].cur, "condition", result))]
    /\ UNCHANGED <<now, nextId, slack, defn>>
    /\ UNCHANGED awaitVars
    /\ UNCHANGED scanVars
    /\ UNCHANGED schedVars

InitBranch ==
    /\ InitStores
    /\ defn \in BranchDefinitions
    /\ InitNoSchedules
    /\ cond \in [config : BranchConfigs,
                  context : [last_response : {<<"g", "o">>, <<"n", "o">>}],
                  result : {NoConditionResult},
                  pc : {"ready"}]

NextBranch ==
    \/ StartGraphPass(None)
    \/ ExecCondition(GraphPassId)
    \/ ExecMessage(GraphPassId)

SpecBranch == InitBranch /\ [][NextBranch]_vars

(***************************************************************************)
(* One rule of a Condition block over the values JSON can hold: a text, a  *)
(* number (with the text str() gives it) or null.                          *)
(***************************************************************************)
TextValues == {<<>>, <<"5">>, <<" ", "7">>, <<"5", "7">>, <<"g", "o">>, <<"G", "O", " ">>, <<"(">>}

JsonValues ==
    [kind : {"str"}, text : TextValues]
        \cup [kind : {"num"}, text : {<<"5">>, <<"7">>}]
        \cup {[kind |-> "null", text |-> <<>>]}

RuleOperators ==
    {"equals", "not_equals", "contains", "not_contains", "starts_with", "ends_with",
     "regex", "is_empty", "is_not_empty", "greater_than", "less_than", "sounds_like"}

NumericOperators == {"greater_than", "less_than"}

\* value_to_check of execute_condition: "" for None, str(value) otherwise
ValueToCheck(v) == IF v.kind = "null" THEN <<>> ELSE v.text

Digits == {"5", "7"}

DigitValue(c) == IF c = "5" THEN 5 ELSE 7

\* float(s) does not raise ValueError: surrounding whitespace apart, a decimal numeral
IsFloat(s) == Strip(s) # <<>> /\ \A i \in 1..Len(Strip(s)) : Strip(s)[i] \in Digits

RECURSIVE Numeral(_)
Numeral(s) == IF s = <<>> THEN 0 ELSE 10 * Numeral(SubSeq(s, 1, Len(s) - 1)) + DigitValue(s[Len(s)])

\* float(s)
Float(s) == Numeral(Strip(s))

\* re.search(pattern, value, re.IGNORECASE) for the patterns of TextValues: "(" does not
\* compile (re.error), every other pattern is a literal
RegexSearch(pattern, value) ==
    IF "(" \in Range(pattern) THEN FALSE ELSE IsSubstring(Lower(pattern), Lower(value))

\* evaluate_condition(value, operator, expected) with value a text and expected any JSON
\* value: "raise" when an exception leaves the function
EvaluateRule(value, operator, expected) ==
    IF expected.kind # "str" THEN "raise"
    ELSE LET is_match ==
                 CASE operator = "regex" -> RegexSearch(expected.text, value)
                   [] operator = "greater_than" ->
                          IsFloat(value) /\ IsFloat(expected.text)
                              /\ Float(value) > Float(expected.text)
                   [] operator = "less_than" ->
                          IsFloat(value) /\ IsFloat(expected.text)
                              /\ Float(value) < Float(expected.text)
                   [] OTHER -> EvaluateCondition(value, operator, expected.text)
         IN  IF is_match THEN "match" ELSE "no_match"

\* execute_condition over a single rule
EvalRule ==
    /\ cond.pc = "ready"
    /\ cond' = [cond EXCEPT
            !.outcome = EvaluateRule(ValueToCheck(cond.value), cond.operator, cond.expected),
            !.pc = "done"]
    /\ UNCHANGED <<now, nextId, slack, orc, defn>>
    /\ UNCHANGED awaitVars
    /\ UNCHANGED scanVars
    /\ UNCHANGED schedVars

InitRule ==
    /\ InitStores
    /\ defn = NoDefinition
    /\ InitNoSchedules
    /\ cond \in [value : JsonValues, operator : RuleOperators, expected : JsonValues,
                  outcome : {"none"}, pc : {"ready"}]

NextRule == EvalRule

SpecRule == InitRule /\ [][NextRule]_vars

(***************************************************************************)
(* The scan subsystem: passes of the workflows with a Scan block, the      *)
(* watched channel and the poller.                                         *)
(***************************************************************************)
NextScan ==
    \/ \E p \in ScanPassIds, t \in ScanTemplates : StartScanPass(p, t)
    \/ \E x \in ScanProcs : ExecMessage(x)
    \/ \E x \in ScanProcs : ScanCount(x)
    \/ \E x \in ScanProcs : ScanDelete(x)
    \/ \E x \in ScanProcs : ScanInsert(x)
    \/ \E text \in ScanTexts : PostToChannel(text)
    \/ PollFind
    \/ PollFetch
    \/ PollUpdate
    \/ PollLog
    \/ ScanTick

SpecScan == Init /\ [][NextScan]_vars

\* the scan subsystem with fetches that fail
NextPoll ==
    \/ \E p \in ScanPassIds, t \in ScanTemplates : StartScanPass(p, t)
    \/ \E x \in ScanProcs : ExecMessage(x)
    \/ \E x \in ScanProcs : ScanCount(x)
    \/ \E x \in ScanProcs : ScanDelete(x)
    \/ \E x \in ScanProcs : ScanInsert(x)
    \/ \E text \in ScanTexts : PostToChannel(text)
    \/ PollFind
    \/ PollFetch
    \/ PollUpdate
    \/ PollLog
    \/ ScanTick
    \/ \E kind \in FetchErrors : PollFetchError(kind)
    \/ PollRecordError

SpecPoll == Init /\ [][NextPoll]_vars

(***************************************************************************)
(* Properties of the suspension store.                                     *)
(***************************************************************************)
ActiveCount(t) == Cardinality({k \in 1..Len(pending) : IsActiveFor(pending[k], t)})

\* C1: in every reachable state the active store holds at most one SuspendedRun
\* (status awaiting_response) per (workflow, workspace) pair.
C1_AtMostOneActivePerPair == \A t \in Templates : ActiveCount(t) <= 1

\* the handler resumed the run with this id
Resumed(h, id) == Len(hand[h].latest) = 1 /\ hand[h].latest[1].id = id

\* the handlers whose resumed pass of run id dispatched a node after the Await
PostAwaitPasses(id) == {h \in HandlerIds : Resumed(h, id) /\ orc[h].visited # {}}

TerminalCopies(store, id) == Cardinality({k \in 1..Len(store) : store[k].doc.id = id})

\* C2: for every SuspendedRun, the nodes after the Await are executed by at most
\* one resumed pass, and the run is inserted into the terminal store at most once.
C2_ResumedAtMostOnce ==
    \A id \in RunIds :
        /\ Cardinality(PostAwaitPasses(id)) <= 1
        /\ TerminalCopies(completed, id) <= 1

\* the participants with an entry in the responses log of the document
Repliers(d) == {d.responses_received[k].user_id : k \in 1..Len(d.responses_received)}

\* the run was resumed, its Response reached every direct channel, and it was filed
\* as completed
CompletedWithResponse(d) ==
    \E k \in 1..Len(completed) :
        /\ completed[k].doc.id = d.id
        /\ completed[k].doc.status = "completed"
        /\ \E j \in 1..Len(completed[k].execution_results) :
              /\ completed[k].execution_results[j].block = "response"
              /\ Range(completed[k].execution_results[j].sent) = Range(d.monitored_channels)

\* C3: a users-mode run whose two participants have both replied "pong" before the
\* timeout is resumed, answered on both direct channels and filed as completed:
\* once every handler has returned, no such run is left waiting in the active store.
C3_BothRepliedThenCompleted ==
    \A k \in 1..Len(pending) :
        LET d == pending[k]
        IN  ( /\ d.mode = "users"
              /\ d.status = "awaiting_response"
              /\ Range(d.monitored_users) \subseteq Repliers(d)
              /\ d.timeout_at >= now
              /\ sendErrors = 0
              /\ HandlersQuiet )
            => CompletedWithResponse(d)

\* an inbound event with a matching text from participant u has been delivered
\* and the loop of its handler reached the run
HasReplied(u, d) ==
    \E g \in HandlerIds :
        /\ d.id \in hand[g].matched
        /\ hand[g].user = u
        /\ CheckResponseMatch(hand[g].text, d.expected_responses)

Occurrences(seq, x) == Cardinality({k \in 1..Len(seq) : seq[k] = x})

LogEntries(d, u) ==
    Cardinality({k \in 1..Len(d.responses_received) : d.responses_received[k].user_id = u})

\* both handlers have returned from handling the same matching event for run d
HandledTwice(h1, h2, d) ==
    /\ h1 # h2
    /\ hand[h1].pc = "done" /\ hand[h2].pc = "done"
    /\ d.id \in hand[h1].matched /\ d.id \in hand[h2].matched
    /\ hand[h1].user = hand[h2].user
    /\ hand[h1].channel = hand[h2].channel
    /\ hand[h1].text = hand[h2].text
    /\ CheckResponseMatch(hand[h1].text, d.expected_responses)

\* every event matched against run d so far came from participant u
OnlyFrom(u, d) == \A g \in HandlerIds : d.id \in hand[g].matched => hand[g].user = u

\* C5: when the same matching inbound event (same participant, channel, text) has
\* been handled twice for an active run, the responded-set of the run contains the
\* participant exactly once and the responses log has exactly one entry for the
\* participant.
C5_DuplicateEventRecordedOnce ==
    \A k \in 1..Len(pending) : \A h1, h2 \in HandlerIds :
        (HandledTwice(h1, h2, pending[k]) /\ OnlyFrom(hand[h1].user, pending[k])) =>
            /\ Occurrences(pending[k].users_responded, hand[h1].user) = 1
            /\ LogEntries(pending[k], hand[h1].user) = 1

InActiveStore(id) == \E k \in 1..Len(pending) : pending[k].id = id

\* the terminal store holds the run under the status the outcome of the pass calls for
FiledAs(id, raised) ==
    \E k \in 1..Len(completed) :
        /\ completed[k].doc.id = id
        /\ completed[k].doc.status = (IF raised THEN "failed" ELSE "completed")
        /\ completed[k].error = raised

\* C6: when a handler that decided to resume a run has finished, the run is no longer
\* in the active store and is in the terminal store, with status completed when the
\* resumed pass of the handler returned and tagged failed with the error when it
\* raised.
C6_ResumedRunIsFiled ==
    \A h \in HandlerIds :
        (hand[h].pc \in {"done", "raised"} /\ Len(hand[h].latest) = 1) =>
            /\ ~InActiveStore(hand[h].latest[1].id)
            /\ FiledAs(hand[h].latest[1].id, orc[h].st = "raised")

(***************************************************************************)
(* Properties of the timeout sweeper.                                      *)
(***************************************************************************)
\* C7: a run past its timeout-at is inserted into the failed store exactly once and
\* its failure message is sent at most once per target channel, however many sweep
\* ticks observe it.
C7_TimedOutOnce ==
    \A id \in RunIds :
        /\ TerminalCopies(failed, id) <= 1
        /\ \A c \in Channels : slack[<<"failure", id, c>>] <= 1

\* C8: when a sweep tick ends, every run it selected has been moved to the failed
\* store, except the one whose insert or delete failed: a failure on one run does not
\* keep the runs selected after it from being marked failed.
C8_SweepIsolatesFailures ==
    [][ (sweep.pc # "sleep" /\ sweep'.pc = "sleep") =>
            \A k \in (sweep.i + 1)..Len(sweep.timed_out) :
                HasId(failed', sweep.timed_out[k].id) ]_vars

(***************************************************************************)
(* Properties of the watches.                                              *)
(***************************************************************************)
\* the watches of the pair the poller is working on
WatchesOfPolled == {k \in 1..Len(scans) : scans[k].template_id = poll.due[poll.i].template_id}

\* C9: the stored cursor of the watch of a pair never moves backwards across polls,
\* a poll followed by a triggered pass included: once the triggered pass is over the
\* pair's watch holds a cursor no smaller than the one the poll wrote; and a message
\* the cursor has covered never causes another trigger.
C9_CursorNeverBackwards ==
    /\ TriggeredPassOver =>
          \A k \in WatchesOfPolled :
              scans[k].last_message_ts >= poll.update_data.last_message_ts
    /\ \A i, j \in 1..Len(fired) : i # j => fired[i] # fired[j]

\* C10: when a poll finds the command the trigger counter goes up by exactly one, and
\* once the triggered pass is over the pair still has a watch with status scanning
\* that carries the incremented counter.
C10_TriggerCounted ==
    TriggeredPassOver =>
        /\ poll.update_data.times_triggered = poll.due[poll.i].times_triggered + 1
        /\ \E k \in WatchesOfPolled :
              /\ scans[k].status = "scanning"
              /\ scans[k].times_triggered = poll.update_data.times_triggered

\* the Scan node of a definition
ScanNodeOf(t) == CHOOSE n \in NodeIds : NodeType(t, n) = "scan"

RECURSIVE NodesFrom(_, _, _)
\* the nodes a pass entered at n reaches along the default outputs, `seen` excluded
NodesFrom(t, n, seen) ==
    IF n = None \/ n \in seen THEN {}
    ELSE {n} \cup NodesFrom(t, GetNextNode(t, n, "bottom"), seen \cup {n})

\* the stored continuation of a watch: the nodes that follow the Scan node
Continuation(t) == NodesFrom(t, GetNextNode(t, ScanNodeOf(t), "bottom"), {})

\* C11: on a scan match the orchestrator is re-entered at the watch's stored
\* continuation: the triggered pass dispatches only nodes that follow the Scan node
\* and never the Scan block itself or a node above it.
C11_TriggerEntersAfterScan ==
    poll.pc = "trigger" =>
        /\ orc[PollId].visited \subseteq Continuation(orc[PollId].tpl)
        /\ orc[PollId].st = "run" => orc[PollId].cur \in Continuation(orc[PollId].tpl)

(***************************************************************************)
(* Properties of the resume entry point.                                   *)
(***************************************************************************)
\* the passes of the workflow of run d that are suspended at an Await node
SuspendedAt(d) ==
    {x \in Procs : orc[x].tpl = d.template_id /\ orc[x].st = "suspended"}

\* handler h has just built the orchestrator of its resumed pass
JustResumed(h) ==
    /\ hand[h].pc = "resuming"
    /\ orc[h].visited = {}
    /\ orc[h].trace = <<>>

\* C12: on resume the pass starts at the node connected to the default output of
\* the Await node that created the run: the Await node some pass of that workflow is
\* suspended at, and not another Await node of the definition.
C12_ResumeAfterOwnAwait ==
    \A h \in HandlerIds :
        JustResumed(h) =>
            \E x \in SuspendedAt(hand[h].latest[1]) :
                orc[h].cur = GetNextNode(orc[h].tpl, orc[x].cur, "bottom")

(***************************************************************************)
(* Properties of the graph traversal.                                      *)
(***************************************************************************)
\* the nodes the pass has dispatched, in dispatch order
Dispatched(x) == [i \in 1..Len(orc[x].trace) |-> orc[x].trace[i].node]

\* C13: in a single graph pass every node is dispatched at most once, and a pass that
\* reaches an already-visited node has stopped, for every definition of G (acyclic or
\* cyclic) and every start node.
C13_NodeDispatchedOnce ==
    LET x == GraphPassId
    IN  /\ \A i, j \in 1..Len(orc[x].trace) : i # j => Dispatched(x)[i] # Dispatched(x)[j]
        /\ Range(Dispatched(x)) \subseteq orc[x].visited
        /\ orc[x].cur \in orc[x].visited => orc[x].st = "finished"

\* a pass over a cyclic definition that came back to a node it had dispatched
C13_Witness ==
    LET x == GraphPassId
    IN  /\ orc[x].st = "finished"
        /\ orc[x].cur # None
        /\ Contains(Dispatched(x), orc[x].cur)
        /\ Len(orc[x].trace) >= 2

\* a definition the construction is to reject: no blocks, a legacy name without its
\* config, or a kind without an executor in the block list or as the type of a node
Rejectable(d) ==
    \/ d.blocks = <<>>
    \/ \E i \in 1..Len(d.blocks) :
          \/ d.format = "old" /\ ~d.blocks[i].config
          \/ d.blocks[i].kind \notin BlockExecutors
    \/ \E n \in GraphNodes : d.type[n] \notin BlockExecutors \cup {None}

\* no message has been posted
NothingPosted == \A k \in SlackKeys : slack[k] = 0

\* C14: a definition with an empty block list, with a legacy block name that has no
\* config, or that references an unknown block kind (in the block list or as the type of
\* a graph node) is rejected at construction: no pass over it exists, nothing is
\* dispatched and nothing is posted.
C14_InvalidDefinitionRejected ==
    Rejectable(defn) =>
        /\ orc[GraphPassId].st \in {"idle", "rejected"}
        /\ orc[GraphPassId].trace = <<>>
        /\ NothingPosted

(***************************************************************************)
(* Properties of the Condition block.                                      *)
(***************************************************************************)
\* the rules of the config that match the evaluated value
MatchingRules ==
    {i \in 1..Len(cond.config.conditions) :
        EvaluateCondition(cond.context.last_response,
                          GetOr(cond.config.conditions[i].operator, "equals"),
                          cond.config.conditions[i].value)}

\* the rules [(equals, "go") -> right, (equals, "no") -> default side of a rule]
GoNoRules ==
    /\ Len(cond.config.conditions) = 2
    /\ cond.config.conditions[1] =
           [operator |-> "equals", value |-> <<"G", "o", " ">>, output_side |-> "right"]
    /\ cond.config.conditions[2] =
           [operator |-> "equals", value |-> <<"n", "o">>, output_side |-> None]
    /\ cond.config.default_output = "left"

\* C15: a Condition block selects the branch of the first rule, in definition order,
\* that matches the context variable, and the configured default branch exactly when no
\* rule matches; with rules [(equals, go) -> right, (equals, no) -> bottom] and default
\* left, "go" selects right and "pong" selects left.
C15_FirstMatchingRuleWins ==
    cond.pc = "done" =>
        /\ cond.result.matched <=> MatchingRules # {}
        /\ MatchingRules # {} =>
              \E i \in MatchingRules :
                  /\ \A j \in MatchingRules : i <= j
                  /\ cond.result.condition_index = i - 1
                  /\ cond.result.output_side =
                         GetOr(cond.config.conditions[i].output_side, "bottom")
        /\ MatchingRules = {} =>
              cond.result.output_side = GetOr(cond.config.default_output, "bottom")
        /\ GoNoRules /\ cond.context.last_response = <<"g", "o">> =>
              cond.result.output_side = "right"
        /\ GoNoRules /\ cond.context.last_response = <<"n", "o">> =>
              cond.result.output_side = "bottom"
        /\ GoNoRules /\ cond.context.last_response = <<"p", "o", "n", "g">> =>
              cond.result.output_side = "left"

\* two rules match and the first one's branch, different from the second's, is taken
C15_Witness ==
    /\ cond.pc = "done"
    /\ Cardinality(MatchingRules) = 2
    /\ cond.config.conditions[1].output_side # cond.config.conditions[2].output_side
    /\ cond.result.output_side = cond.config.conditions[1].output_side

(***************************************************************************)
(* Properties of the scheduler.                                            *)
(***************************************************************************)
\* the job ids of the persisted entries with status active whose spec parses
RestorableJobs ==
    {j \in JobIds : /\ schedules[j].present
                    /\ schedules[j].status = "active"
                    /\ ParseScheduleConfig(schedules[j].schedule_config) # "ValueError"}

UnscheduleStep == req' # req /\ req'.op = "unschedule"

\* C17: unschedule_template(job) removes the job's timer and sets the persisted entry's
\* status to stopped, and leaves every suspended run (active and terminal) and every
\* watch unchanged.
C17_UnscheduleFrame ==
    [][UnscheduleStep =>
          /\ req'.job \notin timers'
          /\ req'.pc = "done" =>
                /\ schedules'[req'.job].present = schedules[req'.job].present
                /\ schedules'[req'.job].present => schedules'[req'.job].status = "stopped"
          /\ \A j \in JobIds \ {req'.job} : schedules'[j] = schedules[j]
          /\ pending' = pending
          /\ completed' = completed
          /\ failed' = failed
          /\ scans' = scans
          /\ orc' = orc]_vars

\* a job whose timer had fired is unscheduled while a suspended run and a timed-out run
\* of its workflow are stored
C17_Witness ==
    /\ req.op = "unschedule"
    /\ req.pc = "done"
    /\ req.job \notin timers
    /\ schedules[req.job].present
    /\ schedules[req.job].status = "stopped"
    /\ \E k \in 1..Len(pending) : pending[k].template_id = req.job[1]
    /\ \E k \in 1..Len(failed) : failed[k].doc.template_id = req.job[1]

(***************************************************************************)
(* Properties of suspension.                                               *)
(***************************************************************************)
\* the Await and Scan nodes pass x has dispatched
SuspendingNodes(x) ==
    {n \in orc[x].visited : NodeType(orc[x].tpl, n) \in {"await", "scan"}}

RECURSIVE PathBefore(_, _, _, _)
\* the nodes from n along the default outputs up to, and without, the node `stop`
PathBefore(t, n, stop, seen) ==
    IF n = None \/ n = stop \/ n \in seen THEN <<>>
    ELSE <<n>> \o PathBefore(t, GetNextNode(t, n, "bottom"), stop, seen \cup {n})

\* C18: a pass that dispatched an Await or Scan block has returned there: it stands at
\* that node, no node downstream of it is dispatched, and its trace holds exactly the
\* nodes dispatched before the suspending node, in dispatch order.
C18_SuspensionStopsPass ==
    \A x \in PassIds \cup ScanPassIds :
        \A n \in SuspendingNodes(x) :
            LET t == orc[x].tpl
            IN  /\ orc[x].cur = n
                /\ orc[x].st \in {"await_delete", "await_insert", "suspended", "raised",
                                  "scan_delete", "scan_insert", "scanning"}
                /\ Range(Dispatched(x)) \cap NodesFrom(t, n, {}) = {}
                /\ Dispatched(x) = PathBefore(t, GetFirstNodeAfterTrigger(t), n, {})

\* one pass is suspended at an Await node and another at a Scan node, each with the
\* Message before it in its trace
C18_Witness ==
    /\ \E x \in PassIds :
          /\ orc[x].st = "suspended"
          /\ SuspendingNodes(x) # {}
          /\ Len(orc[x].trace) = 1
    /\ \E x \in ScanPassIds :
          /\ orc[x].st = "scanning"
          /\ SuspendingNodes(x) # {}
          /\ Len(orc[x].trace) = 1

(***************************************************************************)
(* Properties of the failure message.                                      *)
(***************************************************************************)
\* the channels the failure message of the timed-out run e is due on
FailureChannels(e) ==
    IF ~e.failure_message THEN {}
    ELSE IF e.mode = "channel" THEN {MessageChannel(e.template_id)}
    ELSE {DmChannel(u) : u \in UsersNotResponded(e)}

\* C19: when the sweeper times out a run that has a failure message, in channel mode the
\* message is sent once to the shared channel, and in users mode once to the direct
\* channel of every monitored participant who has not responded and to no channel of a
\* participant who has responded.
C19_FailureMessageTargets ==
    [][sweep.pc = "mark" /\ sweep' # sweep =>
          LET e == sweep.timed_out[sweep.i]
          IN  \A c \in Channels :
                  slack'[<<"failure", e.id, c>>] =
                      slack[<<"failure", e.id, c>>]
                          + (IF c \in FailureChannels(e) THEN 1 ELSE 0)]_vars

(***************************************************************************)
(* The sweeper against the inbound-event handler.                          *)
(***************************************************************************)
\* C20: under any interleaving of the sweeper with a handler acting on the same run, the
\* run is never both in the completed store and in the failed store, and the nodes after
\* the Await of a run recorded as timed out are never executed.
C20_OneTerminalRecord ==
    \A id \in RunIds :
        /\ ~(HasId(completed, id) /\ HasId(failed, id))
        /\ HasId(failed, id) => PostAwaitPasses(id) = {}

(***************************************************************************)
(* Properties of the responded-set.                                        *)
(***************************************************************************)
\* C21: no recorded response is lost: every participant whose matching reply was
\* written to the responses log of a run is in the stored responded-set of the run,
\* also when the replies of two participants are handled concurrently.
C21_NoResponseLost ==
    \A k \in 1..Len(pending) :
        Repliers(pending[k]) \subseteq Range(pending[k].users_responded)

(***************************************************************************)
(* Progress of the sweeper.                                                *)
(***************************************************************************)
\* the run is in the active store past its timeout-at
Overdue(id) == \E k \in 1..Len(pending) : pending[k].id = id /\ IsTimedOut(pending[k], now)

\* the run has been moved to the failed store with reason timeout and its non-responders
MovedToFailed(id) ==
    /\ ~InActiveStore(id)
    /\ \E k \in 1..Len(failed) :
          /\ failed[k].doc.id = id
          /\ failed[k].failure_reason = "timeout"
          /\ failed[k].users_not_responded = UsersNotResponded(failed[k].doc)

RECURSIVE ReachIn(_, _, _)
ReachIn(t, S, k) ==
    IF k = 0 THEN S
    ELSE ReachIn(t, S \cup {c.to : c \in {d \in CanvasConnections(t) : d.from \in S}}, k - 1)

\* the node ids that can be reached from `start` along the connections of the workflow
ReachableFrom(t, start) == ReachIn(t, {start}, Cardinality(NodeIds))

\* C23: a pass over the graph terminates for every finite definition, cycles and nodes
\* without a type included: the number of iterations of the loop of _execute_graph never
\* exceeds the number of distinct node ids reachable from the start node, and a pass that
\* is still in the loop is at a node it has not visited and has iterations left.
C23_GraphPassBounded ==
    \A x \in DOMAIN orc :
        orc[x].start # None =>
            LET reach == ReachableFrom(orc[x].tpl, orc[x].start)
            IN  /\ orc[x].iters <= Cardinality(reach)
                /\ orc[x].st = "run" =>
                      /\ orc[x].cur \notin orc[x].visited
                      /\ orc[x].iters < Cardinality(reach)

\* a pass over a cycle through a node without a type has ended after one iteration per
\* node, at the node it started from
C23_Witness ==
    LET o == orc[GraphPassId]
    IN  /\ o.st = "finished"
        /\ o.cur = o.start
        /\ o.start # None
        /\ o.iters = Cardinality(GraphNodes)
        /\ \E n \in o.visited : defn.type[n] = None

(***************************************************************************)
(* Evaluation of a rule over any values.                                   *)
(***************************************************************************)
\* the operand is numeric: a number, or a text that reads as one
IsNumeric(v) == v.kind = "num" \/ (v.kind = "str" /\ IsFloat(v.text))

\* C24: evaluating a rule never raises: for every operator and every context value and
\* rule value, text or not, numeric or not, the outcome is match or no-match, and
\* greater_than / less_than give no-match whenever an operand is not numeric.
C24_EvaluationNeverRaises ==
    cond.pc = "done" =>
        /\ cond.outcome \in {"match", "no_match"}
        /\ (cond.operator \in NumericOperators
                /\ ~(IsNumeric(cond.value) /\ IsNumeric(cond.expected)))
              => cond.outcome = "no_match"

(***************************************************************************)
(* Branching.                                                              *)
(***************************************************************************)
\* the connection the pass has to take after a dispatched node: the output side of the
\* last evaluation for a Condition node, the default output for any other
Follow(t, e) ==
    GetNextNode(t, e.node, IF e.block = "condition" THEN cond.result.output_side ELSE "bottom")

\* C25: after a Condition node the pass goes along the connection on the output side
\* the evaluation produced, after any other node along the default output; when the
\* selected (node, side) has no connection the pass ends successfully with the trace so
\* far, no node of another branch dispatched.
C25_AdvancesAlongSelectedSide ==
    LET o == orc[GraphPassId]
        n == Len(o.trace)
    IN  /\ \A i \in 1..(n - 1) : o.trace[i + 1].node = Follow(o.tpl, o.trace[i])
        /\ (n > 0 /\ o.st = "run") => o.cur = Follow(o.tpl, o.trace[n])
        /\ (n > 0 /\ Follow(o.tpl, o.trace[n]) = None) => o.st = "finished"
        /\ (n > 0 /\ o.st = "finished") => Follow(o.tpl, o.trace[n]) \in o.visited \cup {None}

\* the evaluation matched and chose the right output, which has no connection while the
\* other two outputs have one: the pass has ended with the Condition node alone in its trace
C25_Witness ==
    LET o == orc[GraphPassId]
    IN  /\ o.st = "finished"
        /\ Len(o.trace) = 1
        /\ o.trace[1].block = "condition"
        /\ cond.result.matched
        /\ cond.result.output_side = "right"
        /\ GetNextNode(o.tpl, "n1", "right") = None
        /\ GetNextNode(o.tpl, "n1", "bottom") = "n2"
        /\ GetNextNode(o.tpl, "n1", "left") = "n3"

(***************************************************************************)
(* Await blocks with a malformed timeout or no expected reply.             *)
(***************************************************************************)
\* the step a pass takes at its Await block
AwaitStep(x) == AtBlock(x, "await") /\ orc'[x] # orc[x]

\* the block raised and the store of suspended runs is as it was
RaisedWithoutTrace(x) == orc'[x].st = "raised" /\ pending' = pending

\* C26: when the duration string of an Await block does not match ^\d+[smhd]$ or its set
\* of accepted replies is empty, the block raises and the pass aborts with the store of
\* suspended runs unchanged: no run is created and a prior run of the workflow is kept.
C26_MalformedAwaitAborts ==
    [][\A x \in PassIds :
          (AwaitStep(x) /\ (~MatchesDuration(AwaitTimeout(orc[x].tpl))
                               \/ AwaitExpected(orc[x].tpl) = <<>>))
              => RaisedWithoutTrace(x)]_vars

\* C26, amended: the same for a duration string that does not match ^\d+[smhd]$ after it
\* has been put in lower case; "5M" is a duration of five minutes.
C26_MalformedAwaitAbortsFolded ==
    [][\A x \in PassIds :
          (AwaitStep(x) /\ (~MatchesDuration(Lower(AwaitTimeout(orc[x].tpl)))
                               \/ AwaitExpected(orc[x].tpl) = <<>>))
              => RaisedWithoutTrace(x)]_vars

\* a pass has raised at an Await with a malformed timeout while the run an earlier pass
\* of the workflow created is still in the store
C26_Witness ==
    \E x \in PassIds :
        /\ orc[x].st = "raised"
        /\ ~ParseTimeout(AwaitTimeout(orc[x].tpl))
        /\ \E k \in 1..Len(pending) : IsActiveFor(pending[k], orc[x].tpl)

(***************************************************************************)
(* Fetch errors of the poller.                                             *)
(***************************************************************************)
\* the step of a tick that ends the handling of a watch whose fetch failed
AfterFetchError == poll.error # "none" /\ poll.pc \in {"update", "except"} /\ poll' # poll

\* C27: in one tick of the poller a fetch error for a due watch is recorded on that
\* watch (last_error), its next-check-at is still moved to now + interval, its cursor
\* does not move backwards, and every other watch selected in the tick is still polled.
C27_FetchErrorRecorded ==
    [][AfterFetchError =>
          /\ \A k \in 1..Len(scans) :
                scans[k].id = poll.due[poll.i].id =>
                    /\ scans'[k].last_error
                    /\ scans'[k].next_check_at = now + scans[k].interval_seconds
                    /\ scans'[k].last_message_ts >= scans[k].last_message_ts
          /\ poll.i < Len(poll.due) => (poll'.pc = "fetch" /\ poll'.i = poll.i + 1)]_vars

(***************************************************************************)
(* The background loops outlive an iteration that raised.                  *)
(***************************************************************************)
\* C28: neither the sweeper loop nor the poller loop ends because an iteration raised:
\* after an iteration whose check raised, the loop has logged the exception and slept,
\* and it runs a further iteration.
C28_LoopsOutliveRaise ==
    /\ sweep.caught ~> ~sweep.caught
    /\ poll.caught ~> ~poll.caught

\* the sweeper is in an iteration that follows one that raised: the run it is about to
\* file is in the failed store already, its removal from the active store failed
C28_Witness ==
    /\ sweep.pc = "mark"
    /\ faults = MaxFaults
    /\ HasId(failed, sweep.timed_out[sweep.i].id)

(***************************************************************************)
(* Failed uploads.                                                         *)
(***************************************************************************)
\* the step of a pass at a Message block in which an upload failed
UploadFailed(x) == AtBlock(x, "message") /\ orc'[x] # orc[x] /\ sendErrors' > sendErrors

\* C29: a failure in any of the three steps of the upload of a Message block's file
\* marks that delivery as failed and does not abort the run, in channel mode as well
\* as in users mode.
C29_UploadFailureKeepsRun ==
    [][\A x \in PassIds :
          UploadFailed(x) =>
              /\ orc'[x].st # "raised"
              /\ Len(orc'[x].trace) = Len(orc[x].trace) + 1
              /\ Len(orc'[x].trace[Len(orc'[x].trace)].sent)
                     < Len(AwaitChannels(AfterMessage(orc[x])))]_vars

(***************************************************************************)
(* Failed Response posts.                                                  *)
(***************************************************************************)
\* the step of a pass at a Response block in which a post failed
ResponseFailed(x) == AtBlock(x, "response") /\ orc'[x] # orc[x] /\ sendErrors' > sendErrors

\* C30: a failure of the external call that sends a Response aborts the pass with the
\* error propagated, in the fan-out to the direct channels as well as for one channel.
C30_ResponseFailureAborts ==
    [][\A x \in Procs : ResponseFailed(x) => orc'[x].st = "raised"]_vars

(***************************************************************************)
(* The watch store.                                                        *)
(***************************************************************************)
ScanningCount(t) == Cardinality({k \in 1..Len(scans) : IsScanning(scans[k], t)})

\* C31: in every reachable state the watch store holds at most one watch with status
\* scanning per (workflow, workspace) pair, also when two passes of the workflow execute
\* their Scan block concurrently; a watch is persisted with next-check-at = creation
\* time, an empty cursor and trigger count 0.
C31_AtMostOneWatchPerPair ==
    /\ [](\A t \in ScanTemplates : ScanningCount(t) <= 1)
    /\ [][\A x \in ScanProcs :
            (orc[x].st = "scan_insert" /\ orc'[x].st = "scanning") =>
                /\ Len(scans') = Len(scans) + 1
                /\ scans'[Len(scans')].next_check_at = now
                /\ scans'[Len(scans')].last_message_ts = 0
                /\ scans'[Len(scans')].times_triggered = 0]_vars

(***************************************************************************)
(* One event, one resume.                                                  *)
(***************************************************************************)
\* the run at index k of the store but for its responded-set and responses log
SameButResponders(k) ==
    [pending'[k] EXCEPT !.users_responded = pending[k].users_responded,
                        !.responses_received = pending[k].responses_received] = pending[k]

\* the step in which the handler of an event starts to resume a run
StartsResume(h) == hand[h].pc = "find_one" /\ hand'[h].pc = "resuming"

\* the step in which the handler records the participant on a run it does not resume
RecordsOnly(h) == hand[h].pc = "loop" /\ hand'[h].pc # "find_one" /\ hand'[h] # hand[h]

Concerns(h, d) ==
    /\ Contains(d.monitored_channels, hand[h].channel)
    /\ Contains(d.monitored_users, hand[h].user)
    /\ CheckResponseMatch(hand[h].text, d.expected_responses)

\* a step of the coroutine that handles the event of h, the resumed pass included
HandlerStep(h) ==
    /\ hand[h].pc \notin {"idle", "done", "raised"}
    /\ hand'[h] # hand[h] \/ orc'[h] # orc[h]

NoCallUnderWay == loader.pc = "done" /\ req.pc \in {"idle", "done"}

ActiveJobs == {j \in JobIds : schedules[j].present /\ schedules[j].status = "active"}

LayoutKinds == {"message", "await"}

BlockNames == <<"b1", "b2", "b3", "b4", "b5">>

\* canvas_layout.nodes: one to MaxLayoutNodes nodes with distinct ids
LayoutNodes ==
    UNION {[1..n -> LayoutKinds] : n \in 1..MaxLayoutNodes}

\* canvas_layout.nodeConfigs of a node: no entry, an empty entry, an entry with settings
LayoutConfigsOf(id) ==
    {[present |-> FALSE, config |-> <<>>], [present |-> TRUE, config |-> <<>>],
     [present |-> TRUE, config |-> <<"layout", id>>]}

\* action_chain.blocks: dict blocks with a type and a config, or legacy strings
ListBlocks ==
    UNION {{[j \in 1..n |-> [dict |-> b[j] # "legacy",
                             type |-> IF b[j] = "legacy" THEN "message" ELSE b[j],
                             config |-> IF b[j] = "legacy" THEN <<>>
                                        ELSE <<"block", BlockNames[j]>>]] :
               b \in [1..n -> LayoutKinds \cup {"legacy"}]} : n \in 0..MaxListBlocks}

\* any(node_to_block[nid]["index"] == j for nid in node_to_block)
Assigned(node_to_block, j) == \E k \in 1..Len(node_to_block) : node_to_block[k].index = j

\* the block search without the check that the block is still free
MatchingBlockOfKind(blocks, node_to_block, kind) ==
    LET hits == {j \in 1..Len(blocks) : blocks[j].dict /\ blocks[j].type = kind}
    IN  IF hits = {} THEN 0 ELSE CHOOSE j \in hits : \A h \in hits : j <= h

\* for j, block in enumerate(blocks_list): the first dict block of the node's type that
\* no node has been given; 0 when there is none
MatchingBlock(blocks, node_to_block, kind) ==
    LET hits == {j \in 1..Len(blocks) : /\ blocks[j].dict
                                        /\ blocks[j].type = kind
                                        /\ ~Assigned(node_to_block, j)}
    IN  IF hits = {} THEN 0 ELSE CHOOSE j \in hits : \A h \in hits : j <= h

\* node_configs.get(node_id, {})
NodeConfigFromLayout(d, i) == IF d.node_configs[i].present THEN d.node_configs[i].config ELSE <<>>

\* final_config = node_config_from_layout if node_config_from_layout else block_config;
\* "config": final_config or {}
FinalConfig(d, i, j) ==
    IF Len(NodeConfigFromLayout(d, i)) > 0 THEN NodeConfigFromLayout(d, i)
    ELSE IF j = 0 THEN <<>> ELSE d.blocks[j].config

\* one iteration of `for i, node in enumerate(nodes)`
BuildNode ==
    /\ defn.format = "layout"
    /\ Len(defn.node_to_block) < Len(defn.nodes)
    /\ LET i == Len(defn.node_to_block) + 1
           j == MatchingBlock(defn.blocks, defn.node_to_block, defn.nodes[i])
       IN  defn' = [defn EXCEPT !.node_to_block =
                       Append(@, [id |-> NodeOrder[i], index |-> j, type |-> defn.nodes[i],
                                  config |-> FinalConfig(defn, i, j)])]
    /\ UNCHANGED <<now, nextId, slack, orc, cond>>
    /\ UNCHANGED awaitVars
    /\ UNCHANGED scanVars
    /\ UNCHANGED schedVars

InitBuild ==
    /\ InitStores
    /\ InitNoSchedules
    /\ cond = NoCondition
    /\ \E nodes \in LayoutNodes, blocks \in ListBlocks :
          \E configs \in [1..Len(nodes) -> UNION {LayoutConfigsOf(n) : n \in Range(NodeOrder)}] :
              /\ \A i \in 1..Len(nodes) : configs[i] \in LayoutConfigsOf(NodeOrder[i])
              /\ defn = [format |-> "layout", nodes |-> nodes, node_configs |-> configs,
                         blocks |-> blocks, node_to_block |-> <<>>]

NextBuild == BuildNode

SpecBuild == InitBuild /\ [][NextBuild]_vars

\* the graph is built
Built == defn.format = "layout" /\ Len(defn.node_to_block) = Len(defn.nodes)

\* the blocks of the node's kind that none of the nodes before node i was given
FreeBefore(i) ==
    {j \in 1..Len(defn.blocks) :
        /\ defn.blocks[j].dict
        /\ defn.blocks[j].type = defn.nodes[i]
        /\ \A k \in 1..(i - 1) : defn.node_to_block[k].index # j}

\* the config of the first block of FreeBefore(i), {} when there is none
FallbackConfig(i) ==
    IF FreeBefore(i) = {} THEN <<>>
    ELSE defn.blocks[CHOOSE j \in FreeBefore(i) : \A h \in FreeBefore(i) : j <= h].config

NoBlockShared ==
    \A k, l \in 1..Len(defn.node_to_block) :
        k # l /\ defn.node_to_block[k].index # 0 =>
            defn.node_to_block[k].index # defn.node_to_block[l].index

EntryDefinitions ==
    {d \in [type : [GraphNodes -> {"message", None}],
            connections : {ConnectionsOf(e, b) : e \in Targets, b \in [GraphNodes -> Targets]},
            format : {"new", "old"},
            blocks : BlockLists("new") \cup BlockLists("old")] :
        /\ d.blocks \in BlockLists(d.format)
        /\ d.blocks = <<>> => d.format = "new"}

\* the graph is walked whenever the trigger output is connected
UseGraphWhenEntered(d) ==
    \E c \in d.connections : c.from = "trigger-node" /\ c.side = "bottom"

\* use_graph = len(self.node_to_block) > 0 and len(self.connections_from) > 0; the
\* canvas of G always has its three nodes
UseGraph(d) == Cardinality(GraphNodes) > 0 /\ Cardinality(d.connections) > 0

\* _execute_sequential entered at block index 0
NewSequential(t, blocks) ==
    [IdleOrc EXCEPT !.st = IF Len(blocks) = 0 THEN "finished" ELSE "sequential", !.tpl = t]

\* execute() without start_from_node, after __init__ has validated the template
StartEntryPass ==
    /\ orc[GraphPassId].st = "idle"
    /\ orc' = [orc EXCEPT ![GraphPassId] =
            IF ~ValidateTemplate(defn) THEN [IdleOrc EXCEPT !.st = "rejected"]
            ELSE IF UseGraph(defn)
            THEN NewOrchestrator(GraphTemplate, GetFirstNodeAfterTrigger(GraphTemplate))
            ELSE NewSequential(GraphTemplate, defn.blocks)]
    /\ UNCHANGED <<now, nextId, slack>>
    /\ UNCHANGED awaitVars
    /\ UNCHANGED scanVars
    /\ UNCHANGED graphVars
    /\ UNCHANGED schedVars

\* one iteration of the for loop of _execute_sequential at a Message block
ExecSequentialMessage(x) ==
    /\ orc[x].st = "sequential"
    /\ defn.blocks[orc[x].iters + 1].kind = "message"
    /\ LET o == AfterMessage(orc[x])
           chans == IF o.message_mode = "channel" THEN <<o.last_channel>>
                    ELSE o.user_channels
       IN  /\ orc' = [orc EXCEPT ![x] =
                        [o EXCEPT !.trace = Append(@, [node |-> None, block |-> "message",
                                                       sent |-> chans]),
                                  !.iters = @ + 1,
                                  !.st = IF o.iters + 1 = Len(defn.blocks) THEN "finished"
                                         ELSE "sequential"]]
           /\ slack' = Posted(slack, "message", 0, chans)
    /\ UNCHANGED scanVars
    /\ UNCHANGED <<now, nextId, pending, completed, failed, hand, sweep,
                   faults, sweeps, sendErrors>>
    /\ UNCHANGED graphVars
    /\ UNCHANGED schedVars

InitEntry == InitStores /\ defn \in EntryDefinitions /\ cond = NoCondition /\ InitNoSchedules

NextEntry ==
    \/ StartEntryPass
    \/ ExecMessage(GraphPassId)
    \/ SkipUnknown(GraphPassId)
    \/ ExecSequentialMessage(GraphPassId)

SpecEntry == InitEntry /\ [][NextEntry]_vars

\* the pass of G has begun
Entered == orc[GraphPassId].st \notin {"idle", "rejected"}

\* the pass runs the legacy linear order from the first block: its trace lists the
\* blocks executed so far, in list order, and it ends after the last one
LinearOrder ==
    LET o == orc[GraphPassId]
    IN  /\ o.start = None
        /\ Len(o.trace) <= Len(defn.blocks)
        /\ \A k \in 1..Len(o.trace) : o.trace[k].block = defn.blocks[k].kind
        /\ o.st = "finished" => Len(o.trace) = Len(defn.blocks)
        /\ o.st # "finished" => o.st = "sequential"

\* the pass walks the graph from the node connected to the trigger output
FromEntryNode ==
    LET o == orc[GraphPassId]
    IN  /\ o.start = GetFirstNodeAfterTrigger(GraphTemplate)
        /\ o.st \in {"run", "finished"}
        /\ Len(o.trace) > 0 => o.trace[1].node # None

\* C36 as stated: a pass without an explicit start node begins at the node connected to
\* the trigger output; when no connection leaves that output it runs the legacy linear
\* order from the first block.
C36_EntryOrLinear ==
    Entered =>
        IF GetFirstNodeAfterTrigger(GraphTemplate) # None THEN FromEntryNode ELSE LinearOrder

\* C36, amended: a pass without an explicit start node begins at the node connected to
\* the trigger output; when the definition has no connection at all it runs the legacy
\* linear order from the first block; when it has connections but none leaves the
\* trigger output the pass ends at once and executes nothing.
C36_EntryOrLinearWithoutConnections ==
    Entered =>
        IF GetFirstNodeAfterTrigger(GraphTemplate) # None THEN FromEntryNode
        ELSE IF defn.connections = {} THEN LinearOrder
        ELSE /\ orc[GraphPassId].st = "finished"
             /\ orc[GraphPassId].trace = <<>>
             /\ \A k \in DOMAIN slack : slack[k] = 0

\* a definition without connections has run its two blocks in list order
C36_Witness ==
    /\ defn.connections = {}
    /\ orc[GraphPassId].st = "finished"
    /\ Len(defn.blocks) = 2
    /\ Len(orc[GraphPassId].trace) = 2

(***************************************************************************)
(* The ways out of the active store.                                       *)
(***************************************************************************)
\* the runs the step removes from the active store
Leaving == {id \in RunIds : InActiveStore(id) /\ ~(\E k \in 1..Len(pending') : pending'[k].id = id)}

\* the step is the delete_many of an Await block of the pair of run id
ReplacedByAwait(id) ==
    \E x \in Procs : orc[x].st = "await_delete" /\ orc'[x].st # "await_delete"

\* C37: a run leaves the active store in exactly one of three ways: resumed (it is in
\* the completed store and not in the failed store), timed out (it is in the failed store
\* and not in the completed store), or replaced by a later Await of its pair (it is in
\* neither terminal store).
C37_ThreeWaysOut ==
    [][\A id \in Leaving :
          IF ReplacedByAwait(id)
          THEN ~HasId(completed', id) /\ ~HasId(failed', id)
          ELSE HasId(completed', id) # HasId(failed', id)]_vars

(***************************************************************************)
(* A resumed pass that suspends again.                                     *)
(***************************************************************************)
\* the step in which the handler h finalizes the run it resumed
Finalizes(h) == hand[h].pc = "delete" /\ hand'[h].pc = "done"

\* C38: when a resumed pass has itself suspended at an Await block of the same pair,
\* the run that Await created is still in the active store after the handler has
\* finalized the old run: the finalization removes the old run's own record only.
C38_NewRunOutlivesFinalization ==
    [][\A h \in HandlerIds : Finalizes(h) =>
          \A k \in 1..Len(pending) :
              pending[k].id # hand[h].latest[1].id =>
                  \E j \in 1..Len(pending') : pending'[j] = pending[k]]_vars

\* the handler has finalized the run it resumed, its pass is suspended at the second
\* Await of the workflow, and the run of that Await is in the active store
C38_Witness ==
    \E h \in HandlerIds :
        /\ hand[h].pc = "done"
        /\ hand[h].latest # <<>>
        /\ orc[h].st = "suspended"
        /\ HasId(completed, hand[h].latest[1].id)
        /\ \E k \in 1..Len(pending) :
              /\ pending[k].id > hand[h].latest[1].id
              /\ pending[k].template_id = hand[h].latest[1].template_id
              /\ pending[k].status = "awaiting_response"

(***************************************************************************)
(* Replies after the timeout.                                              *)
(***************************************************************************)
\* the reply (u, c, text) matches the stored run d and completes its responded-set
Completes(d, u, c, text) ==
    /\ d.status = "awaiting_response"
    /\ Contains(d.monitored_channels, c)
    /\ Contains(d.monitored_users, u)
    /\ CheckResponseMatch(text, d.expected_responses)
    /\ Range(d.monitored_users) \subseteq Range(d.users_responded) \cup {u}

\* C39: whether a reply resumes a run does not depend on timeout-at: a stored run that
\* the reply matches and completes is selected by the handler whether or not its
\* timeout-at has passed, the handler decides to resume the run it completes, and it
\* resumes it provided the sweeper has not removed it from the active store meanwhile.
C39_ResumeIgnoresTimeout ==
    [][\A h \in HandlerIds :
          /\ hand[h].pc = "idle" /\ hand'[h].pc # "idle" =>
                \A k \in 1..Len(pending) :
                    Completes(pending[k], hand'[h].user, hand'[h].channel, hand'[h].text) =>
                        /\ hand'[h].pc = "loop"
                        /\ \E j \in 1..Len(hand'[h].found) : hand'[h].found[j] = pending[k]
          /\ ( /\ hand[h].pc = "loop"
               /\ hand'[h] # hand[h]
               /\ Completes(hand[h].found[hand[h].i], hand[h].user, hand[h].channel,
                            hand[h].text) ) => hand'[h].pc = "find_one"
          /\ ( /\ hand[h].pc = "find_one"
               /\ hand'[h] # hand[h]
               /\ InActiveStore(hand[h].found[hand[h].i].id) ) =>
                    /\ hand'[h].pc = "resuming"
                    /\ orc'[h].st # "idle"]_vars

\* a run whose timeout-at has passed and which the sweeper has not removed is being
\* resumed by the reply that completed its responded-set
C39_Witness ==
    \E h \in HandlerIds :
        /\ hand[h].pc = "resuming"
        /\ hand[h].latest[1].timeout_at < now
        /\ InActiveStore(hand[h].latest[1].id)
        /\ ~HasId(completed, hand[h].latest[1].id)

(***************************************************************************)
(* One poll, one trigger.                                                  *)
(***************************************************************************)
\* the messages newer than the cursor of the watch that contain its command
MatchingNewer(scan) ==
    {m \in Range(history) :
        /\ scan.last_message_ts = 0 \/ m.ts > scan.last_message_ts
        /\ IsSubstring(Lower(scan.command), Lower(m.text))}

\* C40: one poll of a watch triggers the orchestrator at most once and raises the
\* trigger counter of the watch by at most 1, however many newer messages contain the
\* command: the match is the newest of them, the cursor written covers them all, and
\* the messages that trigger never go back to an older one.
C40_OneTriggerPerPoll ==
    /\ [][poll.pc = "fetch" /\ poll'.pc = "update" /\ faults' = faults =>
             LET scan == poll.due[poll.i]
             IN  MatchingNewer(scan) # {} =>
                     /\ poll'.result.found
                     /\ \A m \in MatchingNewer(scan) :
                            /\ m.ts <= poll'.result.timestamp
                            /\ m.ts <= poll'.update_data.last_message_ts]_vars
    /\ [][poll.pc = "update" /\ poll' # poll =>
             LET scan == poll.due[poll.i]
             IN  /\ fired' = IF poll.result.found THEN Append(fired, poll.result.timestamp)
                             ELSE fired
                 /\ \A k \in 1..Len(scans) : scans[k].id = scan.id =>
                        /\ scans'[k].times_triggered <= scans[k].times_triggered + 1
                        /\ scans'[k].last_message_ts = poll.update_data.last_message_ts]_vars
    /\ [](\A i, j \in 1..Len(fired) : i < j => fired[i] <= fired[j])

\* two messages with the command were newer than the cursor of the polled watch: the
\* poll has triggered once, on the second, and the watch has counter 1 and cursor 2
C40_Witness ==
    /\ poll.pc = "trigger"
    /\ fired = <<2>>
    /\ Cardinality({m \in Range(history) : IsSubstring(Lower(ScanCommand("T3")), Lower(m.text))}) = 2
    /\ \E k \in 1..Len(scans) :
          /\ scans[k].id = poll.due[poll.i].id
          /\ scans[k].times_triggered = 1
          /\ scans[k].last_message_ts = 2

====
